---- MODULE Spec2Model ----
(***************************************************************************)
(* Verification model of the PeerDB normalization engines and of the       *)
(* query replication workflows:                                            *)
(*   - ClickhouseConnector.NormalizeRecords                                 *)
(*       (flow/connectors/clickhouse/normalize.go)                          *)
(*   - mergeStmtGenerator (flow/connectors/bigquery/merge_stmt_generator.go)*)
(*   - QRepFlowWorkflow and XminFlowWorkflow (flow/workflows)               *)
(*   - BigQueryConnector.SyncQRepRecords (flow/connectors/bigquery)        *)
(*   - toQValue (flow/connectors/sql/query_executor.go)                    *)
(* Each part has its own specification (SpecCH, SpecBQ, SpecQRep, ...) over *)
(* its own variables; the variables of the other parts stay at their       *)
(* initial value.                                                           *)
(***************************************************************************)
EXTENDS Integers, Sequences, FiniteSets, Bags, TLC

VARIABLES
    chRaw,            \* ClickHouse raw table: set of staged records
    chSyncBatchID,    \* the last sync batch id minted by the sync side
    chNormBatchID,    \* persisted last_normalize_batch_id (pgMetadata)
    chDst,            \* destination tables: table name -> bag of rows
    chResp,           \* outcome of the last NormalizeRecords call
    chHist,           \* history of the calls (observation only)
    bqRaw,            \* BigQuery raw table: the staged records, in staging order
    bqSyncBatchID,    \* mergeStmtGenerator.syncBatchID: last synced batch id
    bqNormBatchID,    \* mergeStmtGenerator.normalizeBatchID: last normalized batch id
    bqDst,            \* the destination table: a bag of rows
    bqSoftDelete,     \* peerdbCols.SoftDelete
    bqMerged,         \* sync batch id of the last successful, not yet recorded MERGE
    bqHist,           \* history of the MERGE executions (observation only)
    qConfig,          \* the QRepConfig of the running workflow
    qState,           \* the QRepFlowState of the running workflow
    qPc,              \* what the workflow function is blocked on, or how it ended
    qPartitions,      \* the partitions GetPartitions returned in this run
    qXminLast,        \* lastPartition, as ReplicateXminPartition returned it
    qChildren,        \* the child workflows started in this run
    qActiveSignal,    \* QRepFlowExecution.activeSignal
    qSignalChan,      \* the signal channel of the run: signals not yet received
    qCancelled,       \* the workflow context is cancelled
    qTables,          \* the live and the shadow destination table
    qHist,            \* history of the run (observation only)
    vKind,            \* the QValueKind of the column (qfields[i].Type)
    vVal,             \* the driver value handed to toQValue
    vRes,             \* what toQValue returned
    vPc,              \* the position of processRows for this column value
    sqSynced,         \* the partitions the metadata records as synced
    sqDst,            \* rows written to the destination, per partition
    sqCols,           \* the columns of the destination table
    sqRes,            \* what the last SyncQRepRecords call returned
    sqFails           \* number of failed SyncQRepRecords calls

chVars == <<chRaw, chSyncBatchID, chNormBatchID, chDst, chResp, chHist>>

bqVars == <<bqRaw, bqSyncBatchID, bqNormBatchID, bqDst, bqSoftDelete, bqMerged, bqHist>>

qVars == <<qConfig, qState, qPc, qPartitions, qXminLast, qChildren, qActiveSignal,
           qSignalChan, qCancelled, qTables, qHist>>

vVars == <<vKind, vVal, vRes, vPc>>

sqVars == <<sqSynced, sqDst, sqCols, sqRes, sqFails>>

vars == <<chRaw, chSyncBatchID, chNormBatchID, chDst, chResp, chHist,
          bqRaw, bqSyncBatchID, bqNormBatchID, bqDst, bqSoftDelete, bqMerged, bqHist,
          qConfig, qState, qPc, qPartitions, qXminLast, qChildren, qActiveSignal,
          qSignalChan, qCancelled, qTables, qHist,
          vKind, vVal, vRes, vPc,
          sqSynced, sqDst, sqCols, sqRes, sqFails>>

----------------------------------------------------------------------------
(* Bounds *)

\* number of sync batches staged into the ClickHouse raw table
MaxBatch == 2
\* number of failing NormalizeRecords calls
MaxFails == 1
\* largest _peerdb_timestamp of a staged record
MaxTs == 2
\* number of records staged into the BigQuery raw table (one per sync batch)
BQMaxRaw == 2
\* number of MERGE executions
BQMaxMerges == 2
\* number of partitions the source of a query replication holds
MaxPartitions == 7
\* greatest config.MaxParallelWorkers
MaxWorkers == 3
\* number of rows the stream of one partition holds
SQMaxRows == 2
\* number of signals waiting in the signal channel
MaxSignals == 2
\* greatest length of an array value (a JSON array, a slice)
MaxArrayLen == 2

----------------------------------------------------------------------------
(* ClickHouse: raw table and destination tables *)

chTables == {"t1", "t2"}

\* _peerdb_record_type: 0 insert, 1 update, 2 delete
RecordTypes == {0, 1, 2}

\* One staged record.  uid names the record's _peerdb_data payload.
chRecord(uid, batch, tbl, rt, ts) ==
    [uid |-> uid, batch |-> batch, tbl |-> tbl, rt |-> rt, ts |-> ts]

\* SELECT DISTINCT _peerdb_destination_table_name FROM raw
\*   WHERE _peerdb_batch_id > normalizeBatchID AND _peerdb_batch_id <= syncBatchID
getDistinctTableNamesInBatch(raw, syncBatchID, normalizeBatchID) ==
    {r.tbl : r \in {x \in raw : x.batch > normalizeBatchID /\ x.batch <= syncBatchID}}

\* intDiv(_peerdb_record_type, 2) AS _peerdb_is_deleted
signOfNonInsert(rt) == (rt + 1) \div 2
signOf(rt) == rt \div 2

\* the projection of one raw record into a destination row
chProject(r) == [uid |-> r.uid, sign |-> signOf(r.rt), version |-> r.ts]

\* SELECT projection FROM raw WHERE _peerdb_batch_id > normBatchID
\*   AND _peerdb_batch_id <= SyncBatchID AND _peerdb_destination_table_name = tbl
chSelectRowsAnyTable(raw, tbl, normBatchID, syncBatchID) ==
    {chProject(r) : r \in {x \in raw : /\ x.batch > normBatchID
                                        /\ x.batch <= syncBatchID}}
chSelectRows(raw, tbl, normBatchID, syncBatchID) ==
    {chProject(r) : r \in {x \in raw : /\ x.batch > normBatchID
                                        /\ x.batch <= syncBatchID
                                        /\ x.tbl = tbl}}

\* the caught-up test of NormalizeRecords
CaughtUpMut(normBatchID, syncBatchID) == normBatchID > syncBatchID
CaughtUp(normBatchID, syncBatchID) == normBatchID >= syncBatchID

\* the batch id NormalizeRecords persists after its inserts
endNormalizeBatchIdSame(normBatchID, syncBatchID) == normBatchID
endNormalizeBatchId(normBatchID, syncBatchID) == normBatchID + 1

\* the insert loop over the tables tbls: INSERT INTO t (...) SELECT ... appends
\* the selected rows of (normBatchID, syncBatchID] to each table
chApplyRange(dst, raw, tbls, normBatchID, syncBatchID) ==
    [t \in chTables |->
        IF t \in tbls
        THEN dst[t] (+) SetToBag(chSelectRows(raw, t, normBatchID, syncBatchID))
        ELSE dst[t]]

\* how often the row of raw record r has been inserted into its table
chCopies(dst, r) == CopiesIn(chProject(r), dst[r.tbl])

\* the destination tables before any insert
chEmptyDst == [t \in chTables |-> EmptyBag]

chNoCrash == [s |-> 0, n |-> 0]

chInit ==
    /\ chRaw = {}
    /\ chSyncBatchID = 0
    /\ chNormBatchID = 0
    /\ chDst = chEmptyDst
    /\ chResp = [status |-> "none", req |-> 0, start |-> 0, end |-> 0]
    /\ chHist = [fails |-> 0, cleanS |-> 0, crash |-> chNoCrash, rerun |-> FALSE]

\* The sync side stages one more batch: a record of the raw table with the
\* next batch id (SyncRecords, outside NormalizeRecords).
CHSync ==
    /\ chSyncBatchID < MaxBatch
    /\ \E tbl \in chTables, rt \in RecordTypes, ts \in 1..MaxTs :
          chRaw' = chRaw \cup
                     {chRecord(chSyncBatchID + 1, chSyncBatchID + 1, tbl, rt, ts)}
    /\ chSyncBatchID' = chSyncBatchID + 1
    /\ UNCHANGED <<chNormBatchID, chDst, chResp, chHist>>
    /\ UNCHANGED <<bqVars, qVars, vVars, sqVars>>

\* the pending crash record: cleared once its rerun has been observed
chCrashNow == IF chHist.rerun THEN chNoCrash ELSE chHist.crash

\* History bookkeeping of one call with request SyncBatchID S.  cleanS: the
\* SyncBatchID of the calls so far when none failed and all asked for the same
\* one (0: no call yet, -1: otherwise).  crash: the range of a call that wrote
\* every row into the still empty tables and failed in UpdateNormalizeBatchID.
\* rerun: this call succeeded for the range of that crash.
chNote(S, failed, crash, rerun) ==
    [fails  |-> chHist.fails + (IF failed THEN 1 ELSE 0),
     cleanS |-> IF failed THEN -1
                ELSE IF chHist.cleanS = 0 THEN S
                ELSE IF chHist.cleanS = S THEN S ELSE -1,
     crash  |-> crash,
     rerun  |-> rerun]

\* ClickhouseConnector.NormalizeRecords, one whole call.  fail names the step
\* that returns an error ("none": the call succeeds); done is the set of
\* tables whose INSERT ran before a failing INSERT.
NormalizeRecords(S, fail, done) ==
    LET normBatchID == chNormBatchID
        destinationTableNames == getDistinctTableNamesInBatch(chRaw, S, normBatchID)
    IN
    /\ fail # "none" => chHist.fails < MaxFails
    /\ UNCHANGED <<chRaw, chSyncBatchID>>
    /\ UNCHANGED <<bqVars, qVars, vVars, sqVars>>
    /\ IF fail = "get"
       THEN \* GetLastNormalizeBatchID failed
            /\ done = {}
            /\ chResp' = [status |-> "error", req |-> S, start |-> 0, end |-> 0]
            /\ chHist' = chNote(S, TRUE, chCrashNow, FALSE)
            /\ UNCHANGED <<chNormBatchID, chDst>>
       ELSE IF CaughtUp(normBatchID, S)
       THEN \* normalize has caught up with sync
            /\ fail = "none" /\ done = {}
            /\ chResp' = [status |-> "caughtup", req |-> S,
                          start |-> normBatchID, end |-> S]
            /\ chHist' = chNote(S, FALSE, chCrashNow, FALSE)
            /\ UNCHANGED <<chNormBatchID, chDst>>
       ELSE IF fail = "names"
       THEN \* getDistinctTableNamesInBatch failed
            /\ done = {}
            /\ chResp' = [status |-> "error", req |-> S, start |-> 0, end |-> 0]
            /\ chHist' = chNote(S, TRUE, chCrashNow, FALSE)
            /\ UNCHANGED <<chNormBatchID, chDst>>
       ELSE IF fail = "insert"
       THEN \* the INSERT of some table failed after those of done succeeded
            /\ done \subseteq destinationTableNames
            /\ done # destinationTableNames
            /\ chDst' = chApplyRange(chDst, chRaw, done, normBatchID, S)
            /\ chResp' = [status |-> "error", req |-> S, start |-> 0, end |-> 0]
            /\ chHist' = chNote(S, TRUE,
                                IF done = {} THEN chCrashNow ELSE chNoCrash,
                                FALSE)
            /\ UNCHANGED chNormBatchID
       ELSE IF fail = "update"
       THEN \* every INSERT succeeded, UpdateNormalizeBatchID failed
            /\ done = destinationTableNames
            /\ chDst' = chApplyRange(chDst, chRaw, done, normBatchID, S)
            /\ chResp' = [status |-> "error", req |-> S, start |-> 0, end |-> 0]
            /\ chHist' = chNote(S, TRUE,
                                IF chCrashNow.s = S THEN chCrashNow
                                ELSE IF chDst = chEmptyDst
                                THEN [s |-> S, n |-> normBatchID]
                                ELSE chNoCrash,
                                FALSE)
            /\ UNCHANGED chNormBatchID
       ELSE \* success
            /\ fail = "none" /\ done = destinationTableNames
            /\ chDst' = chApplyRange(chDst, chRaw, done, normBatchID, S)
            /\ chNormBatchID' = endNormalizeBatchId(normBatchID, S)
            /\ chResp' = [status |-> "done", req |-> S,
                          start |-> endNormalizeBatchId(normBatchID, S), end |-> S]
            /\ chHist' = chNote(S, FALSE,
                                IF chCrashNow.s = S THEN chCrashNow ELSE chNoCrash,
                                chCrashNow.s = S)

\* the request carries the sync batch id the sync side has reached
CHNormalizeEarlyCounter ==
    \E S \in {chSyncBatchID},
       fail \in {"none", "get", "names", "insert", "update"},
       done \in SUBSET chTables :
        IF fail = "insert" /\ ~CaughtUp(chNormBatchID, S)
        THEN /\ chHist.fails < MaxFails
             /\ done \subseteq getDistinctTableNamesInBatch(chRaw, S, chNormBatchID)
             /\ done # getDistinctTableNamesInBatch(chRaw, S, chNormBatchID)
             /\ chDst' = chApplyRange(chDst, chRaw, done, chNormBatchID, S)
             /\ chNormBatchID' = endNormalizeBatchId(chNormBatchID, S)
             /\ chResp' = [status |-> "error", req |-> S, start |-> 0, end |-> 0]
             /\ chHist' = chNote(S, TRUE, chNoCrash, FALSE)
             /\ UNCHANGED <<chRaw, chSyncBatchID>>
             /\ UNCHANGED <<bqVars, qVars, vVars, sqVars>>
        ELSE NormalizeRecords(S, fail, done)
CHNormalizeIdleDone ==
    \E S \in {chSyncBatchID},
       fail \in {"none", "get", "names", "insert", "update"},
       done \in SUBSET chTables :
        IF fail = "none" /\ CaughtUp(chNormBatchID, S)
        THEN /\ done = {}
             /\ chResp' = [status |-> "done", req |-> S,
                           start |-> chNormBatchID, end |-> S]
             /\ chHist' = chNote(S, FALSE, chCrashNow, FALSE)
             /\ UNCHANGED <<chNormBatchID, chDst, chRaw, chSyncBatchID>>
             /\ UNCHANGED <<bqVars, qVars, vVars, sqVars>>
        ELSE NormalizeRecords(S, fail, done)
CHNormalize ==
    \E S \in {chSyncBatchID},
       fail \in {"none", "get", "names", "insert", "update"},
       done \in SUBSET chTables :
        NormalizeRecords(S, fail, done)


----------------------------------------------------------------------------
(* BigQuery: the MERGE statement built by mergeStmtGenerator *)

\* normalizedTableSchema of the destination table
bqColumns == <<"id", "a", "b">>
bqPrimaryKeyColumns == <<"id">>
bqColSet == {bqColumns[i] : i \in 1..Len(bqColumns)}

\* dstTableName, and the name of another table staged in the same raw table
bqDstTableName == "T"
bqOtherTableName == "X"

\* peerdbCols.SoftDeleteColName and peerdbCols.SyncedAtColName
bqSoftDeleteColName == "_PEERDB_IS_DELETED"
bqSyncedAtColName == "_PEERDB_SYNCED_AT"

\* primary keys of the staged records
bqKeys == {1, 2}

\* the values of _peerdb_unchanged_toast_columns: '' and 'b', as column sets
bqGroupOrder == << {}, {"b"} >>
bqGroups == {bqGroupOrder[i] : i \in 1..Len(bqGroupOrder)}

\* JSON_VALUE of a key that _peerdb_data does not hold
bqNull == 0

\* the soft-delete column's value in a row inserted without naming it
bqSoftDeleteDefault == FALSE

\* the flattened projection of one raw record: the payload holds the record's
\* own value (its uid) for every column but the unchanged ones
bqFlatten(uid, r) ==
    [cols |-> [c \in bqColSet |->
                  IF c = "id" THEN r.key
                  ELSE IF c \in r.ut THEN bqNull ELSE uid],
     ts |-> r.ts, rt |-> r.rt, ut |-> r.ut, uid |-> uid]

\* WITH _f AS (SELECT ... FROM raw WHERE _peerdb_batch_id > normalizeBatchID
\*   AND _peerdb_batch_id <= syncBatchID AND _peerdb_destination_table_name = dst)
generateFlattenedCTE(raw, normalizeBatchID, syncBatchID) ==
    {bqFlatten(i, raw[i]) : i \in {j \in 1..Len(raw) :
                                      /\ raw[j].batch > normalizeBatchID
                                      /\ raw[j].batch <= syncBatchID
                                      /\ raw[j].tbl = bqDstTableName}}

\* PARTITION BY (CONCAT(pkey columns))
bqSameKey(x, y) ==
    \A i \in 1..Len(bqPrimaryKeyColumns) :
        x.cols[bqPrimaryKeyColumns[i]] = y.cols[bqPrimaryKeyColumns[i]]

\* _dd: RANK() OVER (PARTITION BY pkey ORDER BY _peerdb_timestamp DESC) = 1
generateDeDupedCTEMut(f) ==
    {d \in f : \A e \in f : bqSameKey(e, d) => e.ts >= d.ts}
generateDeDupedCTE(f) ==
    {d \in f : \A e \in f : bqSameKey(e, d) => e.ts <= d.ts}

\* utils.ArrayMinus
ArrayMinus(first, second) == first \ second

\* One WHEN clause of the MERGE.  rtDelete: the clause tests _rt=2 (TRUE) or
\* _rt!=2 (FALSE); utAny: it does not test _ut; set: the columns assigned from
\* _d; synced: it assigns CURRENT_TIMESTAMP to the synced-at column; softDel:
\* what it assigns to the soft-delete column ("keep": nothing).
bqClause(matched, rtDelete, utAny, ut, op, set, synced, softDel) ==
    [matched |-> matched, rtDelete |-> rtDelete, utAny |-> utAny, ut |-> ut,
     op |-> op, set |-> set, synced |-> synced, softDel |-> softDel]

\* the UPDATE clauses generateUpdateStatements emits for one group cols
bqUpdateStmtsFor(cols, otherCols, handleSoftDelete) ==
    << bqClause(TRUE, FALSE, FALSE, cols, "UPDATE", otherCols,
                bqSyncedAtColName # "",
                IF handleSoftDelete THEN "FALSE" ELSE "keep") >>
    \o (IF handleSoftDelete
        THEN << bqClause(TRUE, TRUE, FALSE, cols, "UPDATE", otherCols,
                         bqSyncedAtColName # "", "TRUE") >>
        ELSE << >>)

RECURSIVE bqUpdateLoop(_, _, _)
bqUpdateLoop(allCols, unchangedToastColumns, handleSoftDelete) ==
    IF unchangedToastColumns = << >> THEN << >>
    ELSE LET cols == Head(unchangedToastColumns)
             otherCols == ArrayMinus(allCols, cols)
         IN bqUpdateStmtsFor(cols, otherCols, handleSoftDelete)
            \o bqUpdateLoop(allCols, Tail(unchangedToastColumns), handleSoftDelete)

\* mutants of generateUpdateStatements: the unchanged columns are overwritten
\* too; the soft-delete marker is never cleared
generateUpdateStatementsAllCols(softDelete, allCols, unchangedToastColumns) ==
    LET stmts == bqUpdateLoop(allCols, unchangedToastColumns,
                              softDelete /\ bqSoftDeleteColName # "")
    IN [i \in 1..Len(stmts) |-> [stmts[i] EXCEPT !.set = allCols]]
generateUpdateStatementsNoClear(softDelete, allCols, unchangedToastColumns) ==
    LET stmts == bqUpdateLoop(allCols, unchangedToastColumns,
                              softDelete /\ bqSoftDeleteColName # "")
    IN [i \in 1..Len(stmts) |->
          IF stmts[i].softDel = "FALSE"
          THEN [stmts[i] EXCEPT !.softDel = "keep"] ELSE stmts[i]]

\* mergeStmtGenerator.generateUpdateStatements
generateUpdateStatements(softDelete, allCols, unchangedToastColumns) ==
    bqUpdateLoop(allCols, unchangedToastColumns,
                 softDelete /\ bqSoftDeleteColName # "")

\* the WHEN clauses of the MERGE of generateMergeStmt, in statement order
bqMergeClauses(softDelete, unchangedToastColumns) ==
    LET updateStatementsforToastCols ==
            generateUpdateStatements(softDelete, bqColSet, unchangedToastColumns)
            \o (IF softDelete
                THEN << bqClause(FALSE, TRUE, TRUE, {}, "INSERT", bqColSet,
                                 TRUE, "TRUE") >>
                ELSE << >>)
        deletePart ==
            IF softDelete
            THEN bqClause(TRUE, TRUE, TRUE, {}, "UPDATE", {},
                          bqSyncedAtColName # "", "TRUE")
            ELSE bqClause(TRUE, TRUE, TRUE, {}, "DELETE", {}, FALSE, "keep")
    IN << bqClause(FALSE, FALSE, TRUE, {}, "INSERT", bqColSet, TRUE, "keep") >>
       \o updateStatementsforToastCols
       \o << deletePart >>

\* mutant of generateMergeStmt: the first INSERT clause lacks its _d._rt!=2
\* test, so it inserts delete records too
generateMergeStmtAnyInsert(softDelete, unchangedToastColumns) ==
    << bqClause(FALSE, TRUE, TRUE, {}, "INSERT", bqColSet, TRUE, "keep") >>
    \o bqMergeClauses(softDelete, unchangedToastColumns)

\* mutant of generateMergeStmt: the closing WHEN MATCHED AND _d._rt=2 clause
\* is missing
generateMergeStmtNoDelete(softDelete, unchangedToastColumns) ==
    LET c == bqMergeClauses(softDelete, unchangedToastColumns)
    IN SubSeq(c, 1, Len(c) - 1)

\* mergeStmtGenerator.generateMergeStmt
generateMergeStmt(softDelete, unchangedToastColumns) ==
    bqMergeClauses(softDelete, unchangedToastColumns)

\* -- execution of the MERGE by BigQuery --

\* the search condition of a WHEN clause on source row d
bqCond(c, d) ==
    /\ c.rtDelete <=> (d.rt = 2)
    /\ c.utAny \/ c.ut = d.ut

\* the first clause of the statement that applies to d (0: none)
bqClauseIdx(clauses, matched, d) ==
    LET S == {i \in 1..Len(clauses) :
                 clauses[i].matched = matched /\ bqCond(clauses[i], d)}
    IN IF S = {} THEN 0 ELSE CHOOSE i \in S : \A j \in S : i <= j

\* the source rows joined to target row t (ON _t.pkey = _d.pkey) for which
\* some WHEN MATCHED clause applies
bqMatchers(t, src, clauses) ==
    {d \in src : bqSameKey(t, d) /\ bqClauseIdx(clauses, TRUE, d) # 0}

\* BigQuery refuses a MERGE that would update one target row from more than
\* one source row
bqMergeError(dst, src, clauses) ==
    \E t \in BagToSet(dst) : Cardinality(bqMatchers(t, src, clauses)) > 1

\* target row t after clause c ran for source row d: no row after a DELETE
bqApplyMatched(t, d, c, now) ==
    IF c.op = "DELETE" THEN {}
    ELSE {[cols   |-> [x \in bqColSet |->
                          IF x \in c.set THEN d.cols[x] ELSE t.cols[x]],
           del    |-> IF c.softDel = "TRUE" THEN TRUE
                      ELSE IF c.softDel = "FALSE" THEN FALSE ELSE t.del,
           synced |-> IF c.synced THEN now ELSE t.synced]}

\* the row a WHEN NOT MATCHED ... INSERT clause c builds from source row d
bqInsertRow(d, c, now) ==
    [cols   |-> [x \in bqColSet |-> IF x \in c.set THEN d.cols[x] ELSE bqNull],
     del    |-> IF c.softDel = "TRUE" THEN TRUE ELSE bqSoftDeleteDefault,
     synced |-> IF c.synced THEN now ELSE bqNull]

bqTargetAfter(t, src, clauses, now) ==
    LET M == bqMatchers(t, src, clauses)
    IN IF M = {} THEN {t}
       ELSE LET d == CHOOSE x \in M : TRUE
            IN bqApplyMatched(t, d, clauses[bqClauseIdx(clauses, TRUE, d)], now)

RECURSIVE bqMapTargets(_, _, _, _, _)
bqMapTargets(T, dst, src, clauses, now) ==
    IF T = {} THEN EmptyBag
    ELSE LET t == CHOOSE x \in T : TRUE
             out == bqTargetAfter(t, src, clauses, now)
         IN (IF out = {} THEN EmptyBag ELSE [r \in out |-> dst[t]])
            (+) bqMapTargets(T \ {t}, dst, src, clauses, now)

RECURSIVE bqInsertAll(_, _, _)
bqInsertAll(D, clauses, now) ==
    IF D = {} THEN EmptyBag
    ELSE LET d == CHOOSE x \in D : TRUE
         IN SetToBag({bqInsertRow(d, clauses[bqClauseIdx(clauses, FALSE, d)], now)})
            (+) bqInsertAll(D \ {d}, clauses, now)

\* the destination table after the MERGE ran without error
bqExecMerge(dst, src, clauses, now) ==
    LET unmatched == {d \in src : /\ \A t \in BagToSet(dst) : ~bqSameKey(t, d)
                                  /\ bqClauseIdx(clauses, FALSE, d) # 0}
    IN bqMapTargets(BagToSet(dst), dst, src, clauses, now)
       (+) bqInsertAll(unmatched, clauses, now)

\* the unchanged-column groups the caller hands to generateMergeStmt: the
\* distinct _peerdb_unchanged_toast_columns of the non-delete records of the
\* batch range staged for the table, one clause group each
bqUnchangedToastColumns(raw, normalizeBatchID, syncBatchID) ==
    LET present == {d.ut : d \in {x \in generateFlattenedCTE(raw, normalizeBatchID,
                                                             syncBatchID) : x.rt # 2}}
    IN SelectSeq(bqGroupOrder, LAMBDA g : g \in present)

bqNoMerge == [status |-> "none", n |-> 0, s |-> 0, pre |-> EmptyBag,
              repeat |-> FALSE, merges |-> 0]

bqInit ==
    /\ bqRaw = << >>
    /\ bqSyncBatchID = 0
    /\ bqNormBatchID = 0
    /\ bqDst = EmptyBag
    /\ bqSoftDelete \in BOOLEAN
    /\ bqMerged = 0
    /\ bqHist = bqNoMerge

\* the BigQuery engine at rest (the ClickHouse specification)
bqQuiet ==
    /\ bqRaw = << >>
    /\ bqSyncBatchID = 0
    /\ bqNormBatchID = 0
    /\ bqDst = EmptyBag
    /\ bqSoftDelete = FALSE
    /\ bqMerged = 0
    /\ bqHist = bqNoMerge

\* the primary keys already staged for the table
bqStagedKeys == {bqRaw[i].key : i \in {j \in 1..Len(bqRaw) :
                                          bqRaw[j].tbl = bqDstTableName}}

\* The sync side stages one record under the next batch id.  Only updates and
\* deletes carry unchanged columns.  Keys are interchangeable, so key 2 is
\* staged only after key 1.  A record staged for another destination table is
\* an update of key 1 with a full payload and the latest timestamp.
BQStage ==
    /\ Len(bqRaw) < BQMaxRaw
    /\ \E tbl \in {bqDstTableName, bqOtherTableName},
          key \in bqKeys, rt \in RecordTypes, ts \in 1..MaxTs, ut \in bqGroups :
          /\ (tbl = bqOtherTableName) => (key = 1 /\ rt = 1 /\ ut = {} /\ ts = MaxTs)
          /\ (tbl = bqDstTableName) => \A k \in bqKeys : k < key => k \in bqStagedKeys
          /\ rt = 0 => ut = {}
          /\ bqRaw' = Append(bqRaw, [batch |-> bqSyncBatchID + 1, tbl |-> tbl,
                                     key |-> key, rt |-> rt, ts |-> ts, ut |-> ut])
    /\ bqSyncBatchID' = bqSyncBatchID + 1
    /\ UNCHANGED <<bqNormBatchID, bqDst, bqSoftDelete, bqMerged, bqHist>>
    /\ UNCHANGED <<chVars, qVars, vVars, sqVars>>

\* BigQuery executes the statement of generateMergeStmt for the batch range
\* (normalizeBatchID, syncBatchID]; CURRENT_TIMESTAMP is the number of the
\* execution.
BQMerge ==
    LET src == generateDeDupedCTE(
                   generateFlattenedCTE(bqRaw, bqNormBatchID, bqSyncBatchID))
        clauses == generateMergeStmt(bqSoftDelete,
                       bqUnchangedToastColumns(bqRaw, bqNormBatchID, bqSyncBatchID))
        now == bqHist.merges + 1
        failed == bqMergeError(bqDst, src, clauses)
    IN
    /\ bqNormBatchID < bqSyncBatchID
    /\ bqHist.merges < BQMaxMerges
    /\ bqDst' = IF failed THEN bqDst ELSE bqExecMerge(bqDst, src, clauses, now)
    /\ bqMerged' = IF failed THEN 0 ELSE bqSyncBatchID
    /\ bqHist' = [status |-> IF failed THEN "error" ELSE "ok",
                  n |-> bqNormBatchID, s |-> bqSyncBatchID, pre |-> bqDst,
                  repeat |-> /\ bqHist.status # "none"
                             /\ bqHist.n = bqNormBatchID
                             /\ bqHist.s = bqSyncBatchID,
                  merges |-> bqHist.merges + 1]
    /\ UNCHANGED <<bqRaw, bqSyncBatchID, bqNormBatchID, bqSoftDelete>>
    /\ UNCHANGED <<chVars, qVars, vVars, sqVars>>

\* After a successful MERGE the caller advances last_normalize_batch_id to the
\* end of the applied range.
BQAdvance ==
    /\ bqMerged > bqNormBatchID
    /\ bqNormBatchID' = bqMerged
    /\ bqMerged' = 0
    /\ UNCHANGED <<bqRaw, bqSyncBatchID, bqDst, bqSoftDelete, bqHist>>
    /\ UNCHANGED <<chVars, qVars, vVars, sqVars>>

----------------------------------------------------------------------------
(* Query replication: QRepFlowWorkflow and XminFlowWorkflow *)

\* maxParallelWorkers when config.MaxParallelWorkers is 0
qDefaultWorkers == 16

\* model.NoopSignal, model.PauseSignal
NoopSignal == "NoopSignal"
PauseSignal == "PauseSignal"
qSignals == {NoopSignal, PauseSignal}

\* the suffix of the shadow table of a resync
qResyncSuffix == "_peerdb_resync"

\* the destination table identifier of the mirror, as the sequence of its parts
qLiveTable == << "dst" >>

\* the run UUID of the flow (workflow.GetInfo(ctx).OriginalRunID)
qRunUUID == "run-uuid"

\* the values the xmin replication activity returns
qXminValues == {1, 2}

qSentinelPartition == [PartitionId |-> "not-applicable-partition", Range |-> 0]

\* mutant of NewQRepFlowState: NeedsResync starts false
NewQRepFlowStateNoResync ==
    [LastPartition |-> qSentinelPartition, NumPartitionsProcessed |-> 0,
     NeedsResync |-> FALSE, CurrentFlowStatus |-> "STATUS_RUNNING",
     DisableWaitForNewRows |-> FALSE]

NewQRepFlowState ==
    [LastPartition |-> qSentinelPartition,
     NumPartitionsProcessed |-> 0,
     NeedsResync |-> TRUE,
     CurrentFlowStatus |-> "STATUS_RUNNING",
     DisableWaitForNewRows |-> FALSE]

NewQRepFlowStateForTesting ==
    [LastPartition |-> qSentinelPartition,
     NumPartitionsProcessed |-> 0,
     NeedsResync |-> TRUE,
     CurrentFlowStatus |-> "STATUS_UNKNOWN",
     DisableWaitForNewRows |-> TRUE]

\* strings.TrimSuffix(identifier, "_peerdb_resync")
TrimSuffix(identifier, suffix) ==
    IF Len(identifier) > 0 /\ identifier[Len(identifier)] = suffix
    THEN SubSeq(identifier, 1, Len(identifier) - 1)
    ELSE identifier

\* shared.DivCeil
DivCeil(x, y) == (x + y - 1) \div y

\* model.FlowSignalHandler
FlowSignalHandler(activeSignal, v) ==
    IF v = PauseSignal /\ activeSignal = NoopSignal THEN v
    ELSE IF v = NoopSignal /\ activeSignal = PauseSignal THEN v
    ELSE activeSignal

\* GetQRepPartitions: the n partitions of the source beyond last, in range order
qFetchPartitions(last, n) ==
    [i \in 1..n |-> [PartitionId |-> ToString(last.Range + i),
                     Range |-> last.Range + i]]

\* maxParallelWorkers of QRepFlowWorkflow
qMaxParallelWorkers(config) ==
    IF config.MaxParallelWorkers > 0 THEN config.MaxParallelWorkers
    ELSE qDefaultWorkers

\* mutant of qChunkSize: floor division, at least 1
qChunkSizeFloor(partitions, maxParallelWorkers) ==
    IF Len(partitions) \div maxParallelWorkers = 0 THEN 1
    ELSE Len(partitions) \div maxParallelWorkers

\* chunkSize of processPartitions
qChunkSize(partitions, maxParallelWorkers) ==
    DivCeil(Len(partitions), maxParallelWorkers)

\* mutant of qBatchesFrom: the loop steps over one partition between batches
RECURSIVE qBatchesSkip(_, _, _)
qBatchesSkip(partitions, chunkSize, i) ==
    IF i >= Len(partitions) THEN << >>
    ELSE LET end == IF i + chunkSize < Len(partitions) THEN i + chunkSize
                    ELSE Len(partitions)
         IN << SubSeq(partitions, i + 1, end) >>
            \o qBatchesSkip(partitions, chunkSize, i + chunkSize + 1)

\* the batches loop of processPartitions, from index i (0-based) on
RECURSIVE qBatchesLoop(_, _, _)
qBatchesLoop(partitions, chunkSize, i) ==
    IF i >= Len(partitions) THEN << >>
    ELSE LET end == IF i + chunkSize < Len(partitions) THEN i + chunkSize
                    ELSE Len(partitions)
         IN << SubSeq(partitions, i + 1, end) >>
            \o qBatchesLoop(partitions, chunkSize, i + chunkSize)

qBatchesFrom(partitions, chunkSize, i) == qBatchesLoop(partitions, chunkSize, i)

\* the child workflows processPartitions starts: one per batch, BatchId i + 1
qStartChildren(batches) ==
    [i \in 1..Len(batches) |->
        [batch |-> [Partitions |-> batches[i], BatchId |-> i],
         status |-> "running"]]

\* mutant of qAwaitChildren: the error of a failed child is dropped
qAwaitChildrenNoErr(children) ==
    IF \A i \in 1..Len(children) : children[i].status # "running" THEN "ok"
    ELSE "wait"

\* mutant of qAwaitChildren: only the first future is waited for
qAwaitFirstChild(children) ==
    IF children = << >> \/ children[1].status = "done" THEN "ok"
    ELSE IF children[1].status = "failed" THEN "err" ELSE "wait"

\* the wait loop of processPartitions over q.childPartitionWorkflows, in
\* order: blocked on the first running child ("wait"), returning the error of
\* a failed child it reached ("err"), or through ("ok")
qAwaitChildren(children) ==
    LET notDone == {i \in 1..Len(children) : children[i].status # "done"}
    IN IF notDone = {} THEN "ok"
       ELSE LET first == CHOOSE i \in notDone : \A j \in notDone : i <= j
            IN IF children[first].status = "failed" THEN "err" ELSE "wait"

\* the first activity after handleTableCreationForResync
qFetchPc(config) ==
    IF config.kind = "qrep" THEN "GetQRepPartitions" ELSE "ReplicateXminPartition"

\* mutant of qEnd: no ctx.Err() test before continue-as-new
qEndNoErrCheck(cancelled) == "continued"

\* the end of the workflow function: ctx.Err() is returned when the context
\* is cancelled, else continue-as-new is issued
qEnd(cancelled) == IF cancelled THEN "cancelled" ELSE "continued"

\* what the workflow does next without blocking: where it stops (pc), the
\* flow state, the signal channel, q.activeSignal, and the flow state before
\* the signal check (pre)
qTail(pc, st, chan, active) ==
    [pc |-> pc, state |-> st, chan |-> chan, active |-> active, pre |-> st]

\* mutant of qSignalCheck: observing the pause writes NeedsResync too
qSignalCheckResync(st, chan, active, cancelled) ==
    LET ok == chan # << >>
        a1 == IF ok THEN FlowSignalHandler(active, Head(chan)) ELSE active
        c1 == IF ok THEN Tail(chan) ELSE chan
    IN IF a1 = PauseSignal
       THEN [pc |-> "paused",
             state |-> [st EXCEPT !.CurrentFlowStatus = "STATUS_PAUSED",
                                  !.NeedsResync = TRUE],
             chan |-> c1, active |-> a1, pre |-> st]
       ELSE [pc |-> qEnd(cancelled), state |-> st, chan |-> c1, active |-> a1,
             pre |-> st]

\* receiveAndHandleSignalAsync and the test of q.activeSignal that follows
qSignalCheck(st, chan, active, cancelled) ==
    LET ok == chan # << >>
        a1 == IF ok THEN FlowSignalHandler(active, Head(chan)) ELSE active
        c1 == IF ok THEN Tail(chan) ELSE chan
    IN IF a1 = PauseSignal
       THEN [pc |-> "paused",
             state |-> [st EXCEPT !.CurrentFlowStatus = "STATUS_PAUSED"],
             chan |-> c1, active |-> a1, pre |-> st]
       ELSE [pc |-> qEnd(cancelled), state |-> st, chan |-> c1, active |-> a1,
             pre |-> st]

\* mutant of qAfterRename: XminFlowWorkflow keeps the range of the
\* LastPartition it was started with
qAfterRenameXminStale(config, st, partitions, xminLast, chan, active, cancelled) ==
    IF config.kind = "qrep"
    THEN LET st1 == [st EXCEPT
                        !.NumPartitionsProcessed = @ + Len(partitions),
                        !.LastPartition = IF Len(partitions) > 0
                                          THEN partitions[Len(partitions)] ELSE @]
         IN IF ~st1.DisableWaitForNewRows
            THEN qTail("QRepWaitUntilNewRows", st1, chan, active)
            ELSE qSignalCheck(st1, chan, active, cancelled)
    ELSE qSignalCheck([st EXCEPT !.LastPartition =
                                     [PartitionId |-> qRunUUID,
                                      Range |-> st.LastPartition.Range]],
                      chan, active, cancelled)

\* mutant of qAfterRename: NumPartitionsProcessed is set to the number of
\* partitions of this cycle
qAfterRenameNoSum(config, st, partitions, xminLast, chan, active, cancelled) ==
    IF config.kind = "qrep"
    THEN LET st1 == [st EXCEPT
                        !.NumPartitionsProcessed = Len(partitions),
                        !.LastPartition = IF Len(partitions) > 0
                                          THEN partitions[Len(partitions)] ELSE @]
         IN IF ~st1.DisableWaitForNewRows
            THEN qTail("QRepWaitUntilNewRows", st1, chan, active)
            ELSE qSignalCheck(st1, chan, active, cancelled)
    ELSE qSignalCheck([st EXCEPT !.LastPartition =
                                     [PartitionId |-> qRunUUID, Range |-> xminLast]],
                      chan, active, cancelled)

\* after handleTableRenameForResync: the checkpoint is advanced, then the
\* idle wait (QRepFlowWorkflow, unless disabled) or the signal check
qAfterRename(config, st, partitions, xminLast, chan, active, cancelled) ==
    IF config.kind = "qrep"
    THEN LET st1 == [st EXCEPT
                        !.NumPartitionsProcessed = @ + Len(partitions),
                        !.LastPartition = IF Len(partitions) > 0
                                          THEN partitions[Len(partitions)] ELSE @]
         IN IF ~st1.DisableWaitForNewRows
            THEN qTail("QRepWaitUntilNewRows", st1, chan, active)
            ELSE qSignalCheck(st1, chan, active, cancelled)
    ELSE qSignalCheck([st EXCEPT !.LastPartition =
                                     [PartitionId |-> qRunUUID, Range |-> xminLast]],
                      chan, active, cancelled)

\* the test of handleTableCreationForResync and handleTableRenameForResync
qIsResync(config, st) == st.NeedsResync /\ config.DstTableFullResync

\* mutant of qAfterConsolidate: no return for config.InitialCopyOnly
qAfterConsolidateNoReturn(config, st, partitions, xminLast, chan, active, cancelled) ==
    IF qIsResync(config, st) THEN qTail("GetTableSchema", st, chan, active)
    ELSE qAfterRename(config, [st EXCEPT !.NeedsResync = FALSE], partitions,
                      xminLast, chan, active, cancelled)

\* after consolidatePartitions returned nil
qAfterConsolidate(config, st, partitions, xminLast, chan, active, cancelled) ==
    IF config.InitialCopyOnly THEN qTail("completed", st, chan, active)
    ELSE IF qIsResync(config, st) THEN qTail("GetTableSchema", st, chan, active)
    ELSE qAfterRename(config, [st EXCEPT !.NeedsResync = FALSE], partitions,
                      xminLast, chan, active, cancelled)

\* mutant of handleTableRenameForResync: the suffix stays in the identifier
handleTableRenameForResyncNoTrim(config, st, ok) ==
    IF ok
    THEN [config |-> config, state |-> [st EXCEPT !.NeedsResync = FALSE],
          err |-> FALSE]
    ELSE [config |-> config, state |-> st, err |-> TRUE]

\* mutant of handleTableRenameForResync: NeedsResync is cleared before the
\* rename activity is awaited
handleTableRenameForResyncEarlyClear(config, st, ok) ==
    [config |-> IF ok THEN [config EXCEPT !.DestinationTableIdentifier =
                                              TrimSuffix(@, qResyncSuffix)]
                ELSE config,
     state |-> [st EXCEPT !.NeedsResync = FALSE],
     err |-> ~ok]

\* handleTableRenameForResync from the end of the RenameTables activity on
handleTableRenameForResync(config, st, ok) ==
    IF ok
    THEN [config |-> [config EXCEPT !.DestinationTableIdentifier =
                                        TrimSuffix(@, qResyncSuffix)],
          state |-> [st EXCEPT !.NeedsResync = FALSE],
          err |-> FALSE]
    ELSE [config |-> config, state |-> st, err |-> TRUE]

\* the history of one run of the workflow function; first tells the run that
\* was started with a new flow state from the runs continue-as-new started
qNewHist(st, config, first) ==
    [first |-> first, start |-> st,
     startDst |-> config.DestinationTableIdentifier,
     resync |-> FALSE, consolidated |-> FALSE, consolidateFailed |-> FALSE,
     renameStarted |-> FALSE, renameFailed |-> FALSE, outOfOrder |-> FALSE,
     paused |-> FALSE, prePause |-> st, resumed |-> FALSE]

\* the workflow moves on as tail t says; h is the history so far
qGo(t, h) ==
    /\ qPc' = t.pc
    /\ qState' = t.state
    /\ qSignalChan' = t.chan
    /\ qActiveSignal' = t.active
    /\ qHist' = IF t.pc = "paused"
                THEN [h EXCEPT !.paused = TRUE, !.prePause = t.pre] ELSE h

\* the configurations of a mirror: the workflow function, the two flags and
\* config.MaxParallelWorkers (not read by XminFlowWorkflow);
\* SetupWatermarkTableOnDestination is off
qConfigs ==
    {c \in [kind : {"qrep", "xmin"}, InitialCopyOnly : BOOLEAN,
            DstTableFullResync : BOOLEAN, MaxParallelWorkers : 0..MaxWorkers,
            DestinationTableIdentifier : {qLiveTable}] :
        c.kind = "xmin" => c.MaxParallelWorkers = 0}

\* a workflow started with a new flow state, blocked in its first activity
qInit ==
    /\ qConfig \in qConfigs
    /\ qState \in {NewQRepFlowState, NewQRepFlowStateForTesting}
    /\ qPc = "SetupMetadataTables"
    /\ qPartitions = << >>
    /\ qXminLast = 0
    /\ qChildren = << >>
    /\ qActiveSignal = NoopSignal
    /\ qSignalChan = << >>
    /\ qCancelled = FALSE
    /\ qTables = [live |-> "old", shadow |-> "absent"]
    /\ qHist = qNewHist(qState, qConfig, TRUE)

\* no query replication flow (the specifications of the merge engines)
qQuiet ==
    /\ qConfig = [kind |-> "qrep", InitialCopyOnly |-> FALSE,
                  DstTableFullResync |-> FALSE, MaxParallelWorkers |-> 0,
                  DestinationTableIdentifier |-> qLiveTable]
    /\ qState = NewQRepFlowState
    /\ qPc = "completed"
    /\ qPartitions = << >>
    /\ qXminLast = 0
    /\ qChildren = << >>
    /\ qActiveSignal = NoopSignal
    /\ qSignalChan = << >>
    /\ qCancelled = FALSE
    /\ qTables = [live |-> "old", shadow |-> "absent"]
    /\ qHist = qNewHist(qState, qConfig, TRUE)

\* SetupMetadataTables ends; handleTableCreationForResync starts its activity
\* when the cycle is a resync
QSetupMetadataTables(ok) ==
    /\ qPc = "SetupMetadataTables"
    /\ qPc' = IF ~ok THEN "failed"
              ELSE IF qIsResync(qConfig, qState) THEN "CreateTablesFromExisting"
              ELSE qFetchPc(qConfig)
    /\ UNCHANGED <<qConfig, qState, qPartitions, qXminLast, qChildren,
                   qActiveSignal, qSignalChan, qCancelled, qTables, qHist>>
    /\ UNCHANGED <<chVars, bqVars, vVars, sqVars>>

\* CreateTablesFromExisting ends: the shadow table exists and the
\* destination table identifier names it
QCreateTablesFromExisting(ok) ==
    /\ qPc = "CreateTablesFromExisting"
    /\ IF ok
       THEN /\ qPc' = qFetchPc(qConfig)
            /\ qConfig' = [qConfig EXCEPT !.DestinationTableIdentifier =
                                              Append(@, qResyncSuffix)]
            /\ qTables' = [qTables EXCEPT !.shadow = "created"]
            /\ qHist' = [qHist EXCEPT !.resync = TRUE]
       ELSE /\ qPc' = "failed"
            /\ UNCHANGED <<qConfig, qTables, qHist>>
    /\ UNCHANGED <<qState, qPartitions, qXminLast, qChildren, qActiveSignal,
                   qSignalChan, qCancelled>>
    /\ UNCHANGED <<chVars, bqVars, vVars, sqVars>>

\* GetQRepPartitions ends with n partitions; processPartitions chunks them and
\* starts the child workflows.  With no partition the chunk size is 0 and
\* len(partitions)/chunkSize panics.
QGetPartitions(ok, n) ==
    /\ qPc = "GetQRepPartitions"
    /\ IF ok
       THEN LET partitions == qFetchPartitions(qState.LastPartition, n)
                chunkSize == qChunkSize(partitions, qMaxParallelWorkers(qConfig))
            IN /\ qPartitions' = partitions
               /\ IF chunkSize = 0
                  THEN qPc' = "panicked" /\ UNCHANGED qChildren
                  ELSE /\ qPc' = "ChildWorkflows"
                       /\ qChildren' = qChildren \o
                              qStartChildren(qBatchesFrom(partitions, chunkSize, 0))
       ELSE /\ qPc' = "failed"
            /\ UNCHANGED <<qPartitions, qChildren>>
    /\ UNCHANGED <<qConfig, qState, qXminLast, qActiveSignal, qSignalChan,
                   qCancelled, qTables, qHist>>
    /\ UNCHANGED <<chVars, bqVars, vVars, sqVars>>

\* child workflow i ends; the wait loop of processPartitions goes on as far
\* as it can
QChildWorkflow(i, ok) ==
    /\ qPc = "ChildWorkflows"
    /\ i \in 1..Len(qChildren)
    /\ qChildren[i].status = "running"
    /\ qChildren' = [qChildren EXCEPT ![i].status = IF ok THEN "done" ELSE "failed"]
    /\ LET r == qAwaitChildren(qChildren')
       IN qPc' = IF r = "ok" THEN "ConsolidateQRepPartitions"
                 ELSE IF r = "err" THEN "failed"
                 ELSE "ChildWorkflows"
    /\ qHist' = IF \E j \in 1..(i - 1) : qChildren[j].status = "running"
                THEN [qHist EXCEPT !.outOfOrder = TRUE] ELSE qHist
    /\ UNCHANGED <<qConfig, qState, qPartitions, qXminLast, qActiveSignal,
                   qSignalChan, qCancelled, qTables>>
    /\ UNCHANGED <<chVars, bqVars, vVars, sqVars>>

\* ReplicateXminPartition ends and returns the last xmin it replicated
QReplicateXminPartition(ok, v) ==
    /\ qPc = "ReplicateXminPartition"
    /\ IF ok THEN qPc' = "ConsolidateQRepPartitions" /\ qXminLast' = v
       ELSE qPc' = "failed" /\ UNCHANGED qXminLast
    /\ UNCHANGED <<qConfig, qState, qPartitions, qChildren, qActiveSignal,
                   qSignalChan, qCancelled, qTables, qHist>>
    /\ UNCHANGED <<chVars, bqVars, vVars, sqVars>>

\* ConsolidateQRepPartitions ends: the staged rows are in the table the
\* destination table identifier names
QConsolidate(ok) ==
    /\ qPc = "ConsolidateQRepPartitions"
    /\ IF ok
       THEN /\ qPc' = "CleanupQRepFlow"
            /\ qTables' = IF qConfig.DestinationTableIdentifier = qLiveTable
                          THEN [qTables EXCEPT !.live = "new"]
                          ELSE [qTables EXCEPT !.shadow = "new"]
            /\ UNCHANGED qHist
       ELSE /\ qPc' = "failed"
            /\ qHist' = [qHist EXCEPT !.consolidateFailed = TRUE]
            /\ UNCHANGED qTables
    /\ UNCHANGED <<qConfig, qState, qPartitions, qXminLast, qChildren,
                   qActiveSignal, qSignalChan, qCancelled>>
    /\ UNCHANGED <<chVars, bqVars, vVars, sqVars>>

\* CleanupQRepFlow ends: consolidatePartitions returns
QCleanup(ok) ==
    /\ qPc = "CleanupQRepFlow"
    /\ IF ok
       THEN qGo(qAfterConsolidate(qConfig, qState, qPartitions, qXminLast,
                                  qSignalChan, qActiveSignal, qCancelled),
                [qHist EXCEPT !.consolidated = TRUE])
       ELSE /\ qPc' = "failed"
            /\ qHist' = [qHist EXCEPT !.consolidateFailed = TRUE]
            /\ UNCHANGED <<qState, qSignalChan, qActiveSignal>>
    /\ UNCHANGED <<qConfig, qPartitions, qXminLast, qChildren, qCancelled, qTables>>
    /\ UNCHANGED <<chVars, bqVars, vVars, sqVars>>

\* getTableSchema of handleTableRenameForResync ends; RenameTables starts
QGetTableSchema(ok) ==
    /\ qPc = "GetTableSchema"
    /\ IF ok
       THEN qPc' = "RenameTables" /\ qHist' = [qHist EXCEPT !.renameStarted = TRUE]
       ELSE qPc' = "failed" /\ UNCHANGED qHist
    /\ UNCHANGED <<qConfig, qState, qPartitions, qXminLast, qChildren,
                   qActiveSignal, qSignalChan, qCancelled, qTables>>
    /\ UNCHANGED <<chVars, bqVars, vVars, sqVars>>

\* RenameTables ends: the shadow table has replaced the live table
QRenameTables(ok) ==
    /\ qPc = "RenameTables"
    /\ LET r == handleTableRenameForResync(qConfig, qState, ok)
       IN /\ qConfig' = r.config
          /\ IF r.err
             THEN /\ qPc' = "failed"
                  /\ qState' = r.state
                  /\ qHist' = [qHist EXCEPT !.renameFailed = TRUE]
                  /\ UNCHANGED <<qSignalChan, qActiveSignal, qTables>>
             ELSE /\ qTables' = [live |-> qTables.shadow, shadow |-> "absent"]
                  /\ qGo(qAfterRename(r.config, r.state, qPartitions, qXminLast,
                                      qSignalChan, qActiveSignal, qCancelled),
                         qHist)
    /\ UNCHANGED <<qPartitions, qXminLast, qChildren, qCancelled>>
    /\ UNCHANGED <<chVars, bqVars, vVars, sqVars>>

\* QRepWaitUntilNewRows ends: the source has new rows (ok) or the activity
\* failed
QWaitUntilNewRows(ok) ==
    /\ qPc = "QRepWaitUntilNewRows"
    /\ IF ok
       THEN qGo(qSignalCheck(qState, qSignalChan, qActiveSignal, qCancelled), qHist)
       ELSE /\ qPc' = "failed"
            /\ UNCHANGED <<qState, qSignalChan, qActiveSignal, qHist>>
    /\ UNCHANGED <<qConfig, qPartitions, qXminLast, qChildren, qCancelled, qTables>>
    /\ UNCHANGED <<chVars, bqVars, vVars, sqVars>>

\* signalChan.ReceiveWithTimeout of the paused loop returns: with a signal
\* (ok), or without one when the minute has passed or the context is cancelled
QReceiveWithTimeout(ok) ==
    /\ qPc = "paused"
    /\ IF ok
       THEN /\ qSignalChan # << >>
            /\ LET a1 == FlowSignalHandler(qActiveSignal, Head(qSignalChan))
               IN /\ qActiveSignal' = a1
                  /\ qSignalChan' = Tail(qSignalChan)
                  /\ qPc' = IF a1 = PauseSignal THEN "paused" ELSE qEnd(qCancelled)
                  /\ qHist' = IF a1 = PauseSignal THEN qHist
                              ELSE [qHist EXCEPT !.resumed = TRUE]
       ELSE /\ qSignalChan = << >> \/ qCancelled
            /\ qPc' = IF qCancelled THEN "cancelled" ELSE "paused"
            /\ UNCHANGED <<qActiveSignal, qSignalChan, qHist>>
    /\ UNCHANGED <<qConfig, qState, qPartitions, qXminLast, qChildren,
                   qCancelled, qTables>>
    /\ UNCHANGED <<chVars, bqVars, vVars, sqVars>>

\* The places where a signal or a cancellation is sent in the model.  The
\* workflow reads the signal channel and ctx.Err() only after its last
\* activity, so a signal sent earlier in the run is one that waits in the
\* channel here, and an earlier cancellation fails the activity in flight.
qLatePcs == {"CleanupQRepFlow", "GetTableSchema", "RenameTables",
             "QRepWaitUntilNewRows", "paused"}

\* a pause (PauseSignal) or resume (NoopSignal) signal is sent to the workflow
QSignal(v) ==
    /\ qPc \in qLatePcs
    /\ Len(qSignalChan) < MaxSignals
    /\ qSignalChan' = Append(qSignalChan, v)
    /\ UNCHANGED <<qConfig, qState, qPc, qPartitions, qXminLast, qChildren,
                   qActiveSignal, qCancelled, qTables, qHist>>
    /\ UNCHANGED <<chVars, bqVars, vVars, sqVars>>

\* the statuses a FlowStatusUpdate request carries
qFlowStatuses == {"STATUS_RUNNING", "STATUS_PAUSED"}

\* the FlowStatusUpdate update handler of setWorkflowQueries runs.  The
\* workflow writes CurrentFlowStatus only at the signal check and never reads
\* it, so an update earlier in the run is one that is handled here.
QFlowStatusUpdate(status) ==
    /\ qPc \in qLatePcs
    /\ qState' = [qState EXCEPT !.CurrentFlowStatus = status]
    /\ UNCHANGED <<qConfig, qPc, qPartitions, qXminLast, qChildren,
                   qActiveSignal, qSignalChan, qCancelled, qTables, qHist>>
    /\ UNCHANGED <<chVars, bqVars, vVars, sqVars>>

\* the workflow is terminated: its context is cancelled
QCancel ==
    /\ qPc \in qLatePcs
    /\ ~qCancelled
    /\ qCancelled' = TRUE
    /\ UNCHANGED <<qConfig, qState, qPc, qPartitions, qXminLast, qChildren,
                   qActiveSignal, qSignalChan, qTables, qHist>>
    /\ UNCHANGED <<chVars, bqVars, vVars, sqVars>>

\* continue-as-new: the workflow function starts again with the carried config
\* and state; the new run has its own execution object, signal channel and
\* context
QContinueAsNew ==
    /\ qPc = "continued"
    /\ qPc' = "SetupMetadataTables"
    /\ qPartitions' = << >>
    /\ qXminLast' = 0
    /\ qChildren' = << >>
    /\ qActiveSignal' = NoopSignal
    /\ qSignalChan' = << >>
    /\ qCancelled' = FALSE
    /\ qHist' = qNewHist(qState, qConfig, FALSE)
    /\ UNCHANGED <<qConfig, qState, qTables>>
    /\ UNCHANGED <<chVars, bqVars, vVars, sqVars>>

----------------------------------------------------------------------------
(* GenericSQLQueryExecutor: processRows, toQValue and toQValueArray *)

\* A Go value: its dynamic type t; st tells a NULL ("null": an invalid
\* sql.Null* wrapper, a nil slice behind a pointer, a nil interface behind a
\* pointer) and a nil pointer ("nilptr") from a value ("val"); it is the
\* dynamic type of the value behind a *interface{}; the payload is a string
\* s, a number n or a sequence a of elements
qvGo(t, it, st, s, n, a) == [t |-> t, it |-> it, st |-> st, s |-> s, n |-> n, a |-> a]

\* an element of a sequence: a byte, an array element, a token of a JSON text
qvEl(t, s, n) == [t |-> t, s |-> s, n |-> n]

\* the nil interface value
qvNil == qvGo("nil", "", "null", "", 0, << >>)

\* the value kinds of the qvalue package this file names, and one kind no
\* case of toQValue names
qvTimeKinds == {"QValueKindTimestamp", "QValueKindTimestampTZ", "QValueKindDate",
                "QValueKindTime", "QValueKindTimeTZ"}

qvArrayKinds == {"QValueKindArrayFloat32", "QValueKindArrayFloat64",
                 "QValueKindArrayInt16", "QValueKindArrayInt32",
                 "QValueKindArrayInt64", "QValueKindArrayString"}

qvKinds ==
    qvTimeKinds \cup qvArrayKinds \cup
    {"QValueKindInt16", "QValueKindInt32", "QValueKindInt64",
     "QValueKindFloat32", "QValueKindFloat64", "QValueKindBoolean",
     "QValueKindString", "QValueKindNumeric", "QValueKindBytes",
     "QValueKindBit", "QValueKindUUID", "QValueKindJSON", "QValueKindHStore",
     "QValueKindQChar", "QValueKindArrayBoolean", "QValueKindGeometry"}

\* the scan destination processRows allocates for a column of a kind
processRowsDest(kind) ==
    IF kind \in qvTimeKinds THEN "*sql.NullTime"
    ELSE IF kind = "QValueKindInt16" THEN "*sql.NullInt16"
    ELSE IF kind = "QValueKindInt32" THEN "*sql.NullInt32"
    ELSE IF kind = "QValueKindInt64" THEN "*sql.NullInt64"
    ELSE IF kind \in {"QValueKindFloat32", "QValueKindFloat64"} THEN "*sql.NullFloat64"
    ELSE IF kind = "QValueKindBoolean" THEN "*sql.NullBool"
    ELSE IF kind = "QValueKindString" THEN "*sql.NullString"
    ELSE IF kind \in {"QValueKindBytes", "QValueKindBit"} THEN "*[]byte"
    ELSE IF kind = "QValueKindNumeric" THEN "*sql.NullString"
    ELSE IF kind = "QValueKindUUID" THEN "*[]byte"
    ELSE "*interface{}"

\* the sixteen bytes of two UUIDs, and a byte sequence of another length
qvUUIDBytes1 == [i \in 1..16 |-> qvEl("uint8", "", 16 * i - 1)]
qvUUIDBytes2 == [i \in 1..16 |-> qvEl("uint8", "", (37 * i) % 256)]
qvShortBytes == [i \in 1..3 |-> qvEl("uint8", "", 170 + i)]

\* the tokens of JSON texts: brackets, commas, and scalars by their type
qvTokOpen == qvEl("[", "", 0)
qvTokClose == qvEl("]", "", 0)
qvTokComma == qvEl(",", "", 0)
qvJsonScalars == {qvEl("number", "", 15), qvEl("string", "x", 0),
                  qvEl("true", "", 0), qvEl("null", "", 0)}

\* the text of the JSON array of the scalars es
RECURSIVE qvArrayBody(_)
qvArrayBody(es) ==
    IF es = << >> THEN << >>
    ELSE IF Len(es) = 1 THEN << es[1] >>
    ELSE << es[1], qvTokComma >> \o qvArrayBody(Tail(es))

qvArrayText(es) == << qvTokOpen >> \o qvArrayBody(es) \o << qvTokClose >>

\* the JSON texts a JSON column holds: arrays of scalars, an object, a
\* scalar, and a text that starts as an array and is cut off
qvJsonTexts ==
    UNION {{qvArrayText(es) : es \in [1..k -> qvJsonScalars]} : k \in 0..MaxArrayLen}
    \cup {<< qvEl("{", "", 0), qvEl("}", "", 0) >>,
          << qvEl("string", "x", 0) >>,
          << qvTokOpen, qvEl("number", "", 15), qvTokComma >>}

\* the strings a text or numeric column holds
qvStrings == {"12.5", "abc"}

\* rows.Scan of a database value into the destination of a kind: the values
\* toQValue gets from processRows, the first of each set for a NULL column
qvScanned(kind) ==
    LET t == processRowsDest(kind)
    IN IF t = "*[]byte"
       THEN {qvGo(t, "", "null", "", 0, << >>)} \cup
            {qvGo(t, "", "val", "", 0, b) :
                b \in {qvUUIDBytes1, qvUUIDBytes2, qvShortBytes}}
       ELSE IF t = "*interface{}"
       THEN {qvGo(t, "nil", "null", "", 0, << >>)} \cup
            {qvGo(t, "string", "val", "", 0, a) : a \in qvJsonTexts} \cup
            {qvGo(t, "[]uint8", "val", "", 0, qvShortBytes),
             qvGo(t, "int64", "val", "", 7, << >>)}
       ELSE IF t = "*sql.NullString"
       THEN {qvGo(t, "", "null", "", 0, << >>)} \cup
            {qvGo(t, "", "val", s, 0, << >>) : s \in qvStrings}
       ELSE {qvGo(t, "", "null", "", 0, << >>), qvGo(t, "", "val", "", 7, << >>)}

\* the element types of the Go slices toQValueArray knows
qvElemTypes == {"float32", "float64", "int16", "int32", "int64", "string"}

\* a slice of type t with len elements of type e
qvSlice(t, e, len) ==
    qvGo(t, "", "val", "", 0,
         [i \in 1..len |-> qvEl(e, IF e = "string" THEN "x" ELSE "",
                                IF e = "string" THEN 0 ELSE i)])

\* the values callers hand to toQValue: nil, nil pointers, a pointer to a
\* UUID array, a byte, slices, and every scan destination of every kind
qvDriverValues ==
    {qvNil,
     qvGo("*[]byte", "", "nilptr", "", 0, << >>),
     qvGo("*[16]byte", "", "nilptr", "", 0, << >>),
     qvGo("*[16]byte", "", "val", "", 0, qvUUIDBytes1),
     qvGo("uint8", "", "val", "", 65, << >>)}
    \cup {qvSlice("[]" \o e, e, MaxArrayLen) : e \in qvElemTypes \cup {"bool"}}
    \cup {qvSlice("[]interface{}", e, MaxArrayLen) : e \in qvElemTypes}
    \cup UNION {qvScanned(kind) : kind \in qvKinds}

\* the results of toQValue: a QValue without error, the zero QValue with an
\* error, or a run-time panic (a type assertion without ok, a nil pointer)
qvOk(kind, value) == [out |-> "ok", kind |-> kind, value |-> value]
qvErr == [out |-> "error", kind |-> "", value |-> qvNil]
qvPanic == [out |-> "panic", kind |-> "", value |-> qvNil]
qvNone == [out |-> "none", kind |-> "", value |-> qvNil]

\* a Go value that is no pointer and no wrapper
qvVal(t, s, n, a) == qvGo(t, "", "val", s, n, a)

\* strings.HasPrefix(vstring, "[")
qvHasOpenPrefix(text) == text # << >> /\ text[1].t = "["

\* the Go value json.Unmarshal stores in an interface{} for a scalar token
qvJsonElem(tok) ==
    IF tok.t = "number" THEN qvEl("float64", "", tok.n)
    ELSE IF tok.t = "string" THEN qvEl("string", tok.s, 0)
    ELSE IF tok.t \in {"true", "false"} THEN qvEl("bool", "", IF tok.t = "true" THEN 1 ELSE 0)
    ELSE qvEl("nil", "", 0)

qvJsonFail == [ok |-> FALSE, v |-> << >>]

\* the elements of a JSON array from token i on: a scalar, then the closing
\* bracket at the end of the text or a comma and more elements
RECURSIVE qvParseElems(_, _)
qvParseElems(text, i) ==
    IF i + 1 > Len(text) \/ text[i].t \notin {"number", "string", "true", "false", "null"}
    THEN qvJsonFail
    ELSE IF text[i + 1].t = "]"
    THEN IF i + 1 = Len(text) THEN [ok |-> TRUE, v |-> << qvJsonElem(text[i]) >>]
         ELSE qvJsonFail
    ELSE IF text[i + 1].t = ","
    THEN LET r == qvParseElems(text, i + 2)
         IN IF r.ok THEN [ok |-> TRUE, v |-> << qvJsonElem(text[i]) >> \o r.v]
            ELSE qvJsonFail
    ELSE qvJsonFail

\* json.Unmarshal([]byte(vstring), &v) with v a []interface{}
qvUnmarshal(text) ==
    IF Len(text) < 2 \/ text[1].t # "[" THEN qvJsonFail
    ELSE IF text[2].t = "]"
    THEN IF Len(text) = 2 THEN [ok |-> TRUE, v |-> << >>] ELSE qvJsonFail
    ELSE qvParseElems(text, 2)

qvHexDigits == << "0", "1", "2", "3", "4", "5", "6", "7",
                  "8", "9", "a", "b", "c", "d", "e", "f" >>

\* the two hexadecimal digits of a byte
qvHexByte(n) == qvHexDigits[(n \div 16) + 1] \o qvHexDigits[(n % 16) + 1]

\* the hexadecimal digits of the bytes i..j of b
RECURSIVE qvHexRange(_, _, _)
qvHexRange(b, i, j) ==
    IF i > j THEN "" ELSE qvHexByte(b[i].n) \o qvHexRange(b, i + 1, j)

\* uuid.UUID.String(): the canonical hyphenated text of sixteen bytes
qvUUIDString(b) ==
    qvHexRange(b, 1, 4) \o "-" \o qvHexRange(b, 5, 6) \o "-" \o
    qvHexRange(b, 7, 8) \o "-" \o qvHexRange(b, 9, 10) \o "-" \o
    qvHexRange(b, 11, 16)

\* the strings big.Rat.SetString accepts, among qvStrings
qvRatStrings == {"12.5"}

\* the element type of the slice toQValueArray builds for an array kind
qvArrayElemType(kind) ==
    IF kind = "QValueKindArrayFloat32" THEN "float32"
    ELSE IF kind = "QValueKindArrayFloat64" THEN "float64"
    ELSE IF kind = "QValueKindArrayInt16" THEN "int16"
    ELSE IF kind = "QValueKindArrayInt32" THEN "int32"
    ELSE IF kind = "QValueKindArrayInt64" THEN "int64"
    ELSE "string"

toQValueArray(kind, value) ==
    IF kind \notin qvArrayKinds THEN qvOk(kind, qvNil)
    ELSE LET e == qvArrayElemType(kind)
         IN IF value.t = "[]" \o e THEN qvOk(kind, qvVal(value.t, "", 0, value.a))
            ELSE IF value.t = "[]interface{}"
            THEN IF \E i \in 1..Len(value.a) : value.a[i].t # e THEN qvPanic
                 ELSE qvOk(kind, qvVal("[]" \o e, "", 0, value.a))
            ELSE qvErr

\* the array kind the JSON case of toQValue picks for the first element
qvJsonArrayKind(first) ==
    IF first.t = "float32" THEN "QValueKindArrayFloat32"
    ELSE IF first.t = "float64" THEN "QValueKindArrayFloat64"
    ELSE IF first.t = "int16" THEN "QValueKindArrayInt16"
    ELSE IF first.t = "int32" THEN "QValueKindArrayInt32"
    ELSE IF first.t = "int64" THEN "QValueKindArrayInt64"
    ELSE IF first.t = "string" THEN "QValueKindArrayString"
    ELSE "QValueKindString"

\* the sql.Null* wrapper a case of toQValue asserts, and the Go type of the
\* payload it returns
qvWrapperOf(kind) ==
    IF kind = "QValueKindInt32" THEN << "*sql.NullInt32", "int32" >>
    ELSE IF kind = "QValueKindInt64" THEN << "*sql.NullInt64", "int64" >>
    ELSE IF kind = "QValueKindFloat32" THEN << "*sql.NullFloat64", "float32" >>
    ELSE IF kind = "QValueKindFloat64" THEN << "*sql.NullFloat64", "float64" >>
    ELSE IF kind = "QValueKindString" THEN << "*sql.NullString", "string" >>
    ELSE IF kind = "QValueKindBoolean" THEN << "*sql.NullBool", "bool" >>
    ELSE << "*sql.NullTime", "time.Time" >>

\* the numbers of the model are small integers, which float32() keeps
toQValue(kind, val) ==
    IF val.t = "nil" THEN qvOk(kind, qvNil)
    ELSE IF kind \in {"QValueKindInt32", "QValueKindInt64", "QValueKindFloat32",
                      "QValueKindFloat64", "QValueKindString",
                      "QValueKindBoolean"} \cup qvTimeKinds
    THEN IF val.t = qvWrapperOf(kind)[1]
         THEN IF val.st = "val"
              THEN qvOk(kind, qvVal(qvWrapperOf(kind)[2], val.s, val.n, << >>))
              ELSE qvOk(kind, qvNil)
         ELSE qvErr
    ELSE IF kind = "QValueKindQChar"
    THEN IF val.t = "uint8" THEN qvOk(kind, val) ELSE qvErr
    ELSE IF kind = "QValueKindNumeric"
    THEN IF val.t = "*sql.NullString"
         THEN IF val.st = "val"
              THEN IF val.s \in qvRatStrings
                   THEN qvOk(kind, qvVal("*big.Rat", val.s, 0, << >>))
                   ELSE qvErr
              ELSE qvOk(kind, qvNil)
         ELSE qvErr
    ELSE IF kind \in {"QValueKindBytes", "QValueKindBit"}
    THEN IF val.t = "*[]byte" /\ val.st # "nilptr"
         THEN qvOk(kind, qvGo("[]byte", "", val.st, "", 0, val.a))
         ELSE qvErr
    ELSE IF kind = "QValueKindUUID"
    THEN IF val.t = "*[]byte" /\ val.st # "nilptr"
         THEN IF Len(val.a) = 16
              THEN qvOk("QValueKindString", qvVal("string", qvUUIDString(val.a), 0, << >>))
              ELSE qvErr
         ELSE IF val.t = "*[16]byte" /\ val.st # "nilptr"
         THEN qvOk("QValueKindString", qvVal("[16]byte", "", 0, val.a))
         ELSE qvErr
    ELSE IF kind = "QValueKindJSON"
    THEN IF val.t # "*interface{}" \/ val.st = "nilptr" THEN qvPanic
         ELSE LET vstring == IF val.it = "string" THEN val.a ELSE << >>
                  r == qvUnmarshal(vstring)
              IN IF qvHasOpenPrefix(vstring) /\ ~r.ok THEN qvErr
                 ELSE IF qvHasOpenPrefix(vstring) /\ Len(r.v) > 0
                 THEN toQValueArray(qvJsonArrayKind(r.v[1]),
                                    qvVal("[]interface{}", "", 0, r.v))
                 ELSE qvOk("QValueKindJSON", qvVal("string", "", 0, vstring))
    ELSE IF kind = "QValueKindHStore" THEN qvOk(kind, val)
    ELSE IF kind \in qvArrayKinds THEN toQValueArray(kind, val)
    ELSE qvErr

\* processRows has allocated the scan destination of a column
vInit ==
    /\ vKind \in qvKinds
    /\ vVal = qvNil
    /\ vRes = qvNone
    /\ vPc = "alloc"

\* no query is executed (the specifications of the other components)
vQuiet ==
    /\ vKind = "QValueKindString"
    /\ vVal = qvNil
    /\ vRes = qvNone
    /\ vPc = "done"

\* rows.Scan fills the destination processRows allocated for the column
VScan(val) ==
    /\ vPc = "alloc"
    /\ val \in qvScanned(vKind)
    /\ vVal' = val
    /\ vPc' = "scanned"
    /\ UNCHANGED <<vKind, vRes>>
    /\ UNCHANGED <<chVars, bqVars, qVars, sqVars>>

\* another caller of toQValue passes a value of its own
VCall(val) ==
    /\ vPc = "alloc"
    /\ vVal' = val
    /\ vPc' = "called"
    /\ UNCHANGED <<vKind, vRes>>
    /\ UNCHANGED <<chVars, bqVars, qVars, sqVars>>

\* toQValue returns
VToQValue ==
    /\ vPc \in {"scanned", "called"}
    /\ vRes' = toQValue(vKind, vVal)
    /\ vPc' = IF vPc = "scanned" THEN "converted" ELSE "returned"
    /\ UNCHANGED <<vKind, vVal>>
    /\ UNCHANGED <<chVars, bqVars, qVars, sqVars>>

----------------------------------------------------------------------------
(* BigQuery: SyncQRepRecords, the sync of one partition of a query replication *)

\* the partitions of the flow
sqPartitions == {"p1", "p2"}

\* replayTableSchemaDeltasQRep: the columns of the source schema the
\* destination table lacks, which ReplayTableSchemaDeltas adds; the names
\* are compared with strings.EqualFold, which ignores case
sqAddedColumns(srcSchema, dstSchema) ==
    LET fold(name) == IF name = "C" THEN "c" ELSE name
    IN {col \in srcSchema : ~\E dstCol \in dstSchema : fold(col) = fold(dstCol)}

\* pgMetadata.IsQrepPartitionSynced
IsQrepPartitionSynced(synced, partitionId) == partitionId \in synced

\* no partition is synced yet; the destination table has columns id and c
sqInit ==
    /\ sqSynced = {}
    /\ sqDst = [p \in sqPartitions |-> 0]
    /\ sqCols = {"id", "c"}
    /\ sqRes = [part |-> "", rows |-> 0, err |-> FALSE]
    /\ sqFails = 0

\* BigQueryConnector.SyncQRepRecords, one whole call for partition with a
\* stream of rows rows.  fail names the step that returns an error ("none":
\* no step fails).
SyncQRepRecordsNoCheck(partition, srcSchema, rows, fail) ==
    /\ fail = "none"
    /\ sqCols' = sqCols \cup sqAddedColumns(srcSchema, sqCols)
    /\ sqDst[partition] + rows <= 2 * SQMaxRows
    /\ sqDst' = [sqDst EXCEPT ![partition] = @ + rows]
    /\ sqSynced' = sqSynced \cup {partition}
    /\ sqRes' = [part |-> partition, rows |-> rows, err |-> FALSE]
    /\ UNCHANGED sqFails
    /\ UNCHANGED <<chVars, bqVars, qVars, vVars>>
SyncQRepRecords(partition, srcSchema, rows, fail) ==
    LET failed == [part |-> partition, rows |-> 0, err |-> TRUE]
    IN
    /\ fail # "none" => sqFails < MaxFails
    /\ sqFails' = sqFails + (IF fail # "none" THEN 1 ELSE 0)
    /\ UNCHANGED <<chVars, bqVars, qVars, vVars>>
    /\ IF fail = "schema"
       THEN \* stream.Schema() failed
            /\ sqRes' = failed
            /\ UNCHANGED <<sqCols, sqSynced, sqDst>>
       ELSE IF fail = "replay"
       THEN \* replayTableSchemaDeltasQRep failed, before or after the
            \* columns were added
            /\ sqCols' \in {sqCols, sqCols \cup sqAddedColumns(srcSchema, sqCols)}
            /\ sqRes' = failed
            /\ UNCHANGED <<sqSynced, sqDst>>
       ELSE /\ sqCols' = sqCols \cup sqAddedColumns(srcSchema, sqCols)
            /\ IF fail = "synced"
               THEN \* IsQrepPartitionSynced failed
                    /\ sqRes' = failed
                    /\ UNCHANGED <<sqSynced, sqDst>>
               ELSE IF IsQrepPartitionSynced(sqSynced, partition)
               THEN \* the partition has already been synced
                    /\ fail = "none"
                    /\ sqRes' = [part |-> partition, rows |-> 0, err |-> FALSE]
                    /\ UNCHANGED <<sqSynced, sqDst>>
               ELSE IF fail = "avro"
               THEN \* the Avro sync failed
                    /\ sqRes' = failed
                    /\ UNCHANGED <<sqSynced, sqDst>>
               ELSE \* the Avro sync wrote the rows and recorded the partition
                    /\ fail = "none"
                    /\ sqDst' = [sqDst EXCEPT ![partition] = @ + rows]
                    /\ sqSynced' = sqSynced \cup {partition}
                    /\ sqRes' = [part |-> partition, rows |-> rows, err |-> FALSE]

\* the activity that syncs a partition runs, and runs again when it is
\* retried; the stream's schema (srcSchema.Fields) has the destination's
\* columns up to case, or one more
SQSyncQRepRecords ==
    \E partition \in sqPartitions,
       srcSchema \in {{"id"}, {"id", "C"}, {"id", "d"}},
       rows \in 0..SQMaxRows,
       fail \in {"none", "schema", "replay", "synced", "avro"} :
        SyncQRepRecords(partition, srcSchema, rows, fail)

----------------------------------------------------------------------------
(* Specifications *)

NextCH == CHSync \/ CHNormalize

InitCH == chInit /\ bqQuiet /\ qQuiet /\ vQuiet /\ sqInit

SpecCH == InitCH /\ [][NextCH]_vars

\* a NormalizeRecords call none of whose statements fails
CHProgress ==
    \E done \in SUBSET chTables : NormalizeRecords(chSyncBatchID, "none", done)

\* the normalize loop keeps calling NormalizeRecords while the sync side
\* stages batches, and no call fails
SpecCHFair == InitCH /\ [][CHSync \/ CHProgress]_vars /\ WF_vars(CHProgress)

NextBQ == BQStage \/ BQMerge \/ BQAdvance

InitBQ == chInit /\ bqInit /\ qQuiet /\ vQuiet /\ sqInit

SpecBQ == InitBQ /\ [][NextBQ]_vars

\* A mirror has one destination: its raw table is normalized either by the
\* ClickHouse connector or by the BigQuery connector, whichever acts first.
NextNorm ==
    \/ bqQuiet /\ NextCH
    \/ chInit /\ NextBQ

SpecNorm == InitBQ /\ [][NextNorm]_vars

\* the steps of the workflow that Temporal takes when an activity, a child
\* workflow or a timer ends, whatever the source and the operator do
QProgress ==
    \/ \E ok \in BOOLEAN : QSetupMetadataTables(ok)
    \/ \E ok \in BOOLEAN : QCreateTablesFromExisting(ok)
    \/ \E ok \in BOOLEAN, n \in 0..(MaxPartitions - qState.LastPartition.Range) :
           QGetPartitions(ok, n)
    \/ \E ok \in BOOLEAN, i \in 1..Len(qChildren) : QChildWorkflow(i, ok)
    \/ \E ok \in BOOLEAN, v \in qXminValues : QReplicateXminPartition(ok, v)
    \/ \E ok \in BOOLEAN : QConsolidate(ok)
    \/ \E ok \in BOOLEAN : QCleanup(ok)
    \/ \E ok \in BOOLEAN : QGetTableSchema(ok)
    \/ \E ok \in BOOLEAN : QRenameTables(ok)
    \/ \E ok \in BOOLEAN : QReceiveWithTimeout(ok)
    \/ QContinueAsNew

NextQRep ==
    \/ \E ok \in BOOLEAN : QSetupMetadataTables(ok)
    \/ \E ok \in BOOLEAN : QCreateTablesFromExisting(ok)
    \/ \E ok \in BOOLEAN, n \in 0..(MaxPartitions - qState.LastPartition.Range) :
           QGetPartitions(ok, n)
    \/ \E ok \in BOOLEAN, i \in 1..Len(qChildren) : QChildWorkflow(i, ok)
    \/ \E ok \in BOOLEAN, v \in qXminValues : QReplicateXminPartition(ok, v)
    \/ \E ok \in BOOLEAN : QConsolidate(ok)
    \/ \E ok \in BOOLEAN : QCleanup(ok)
    \/ \E ok \in BOOLEAN : QGetTableSchema(ok)
    \/ \E ok \in BOOLEAN : QRenameTables(ok)
    \/ \E ok \in BOOLEAN : QWaitUntilNewRows(ok)
    \/ \E ok \in BOOLEAN : QReceiveWithTimeout(ok)
    \/ \E v \in qSignals : QSignal(v)
    \/ \E status \in qFlowStatuses : QFlowStatusUpdate(status)
    \/ QCancel
    \/ QContinueAsNew

InitQRep == chInit /\ bqQuiet /\ qInit /\ vQuiet /\ sqInit

SpecQRep == InitQRep /\ [][NextQRep]_vars

\* Temporal runs the workflow on when what it is blocked on ends; nothing
\* makes the source report new rows, or the operator send a signal
SpecQRepFair == InitQRep /\ [][NextQRep]_vars /\ WF_vars(QProgress)

NextQValue ==
    \/ \E val \in qvScanned(vKind) : VScan(val)
    \/ \E val \in qvDriverValues : VCall(val)
    \/ VToQValue

InitQValue == chInit /\ bqQuiet /\ qQuiet /\ vInit /\ sqInit

\* every component starts in its initial state, as for SpecCH
SpecSQ == InitCH /\ [][SQSyncQRepRecords]_vars

SpecQValue == InitQValue /\ [][NextQValue]_vars

----------------------------------------------------------------------------
(* Claims about ClickhouseConnector.NormalizeRecords *)

\* C1: over every sequence of NormalizeRecords calls (successful, failing,
\* caught up) interleaved with increases of the sync batch id, the persisted
\* last_normalize_batch_id never decreases and never exceeds the SyncBatchID
\* of the request that wrote it.
C1_NormalizeBatchIDMonotoneBounded ==
    [][/\ chNormBatchID' >= chNormBatchID
       /\ chNormBatchID' # chNormBatchID =>
              (chResp'.status = "done" /\ chNormBatchID' <= chResp'.req)]_vars

\* C1 witness: the counter was written by a call that followed a failing call,
\* after the sync batch id had increased twice
C1_Witness ==
    /\ chNormBatchID = 1
    /\ chHist.rerun
    /\ chResp.status = "done"
    /\ chSyncBatchID = 2

\* C2 (as claimed): after a successful call that applied records the persisted
\* last_normalize_batch_id equals req.SyncBatchID.
C2_AdvancesToSyncBatchID ==
    chResp.status = "done" => chNormBatchID = chResp.req

\* C3 (as claimed): over successful calls only, all with the same SyncBatchID S
\* and starting from last_normalize_batch_id 0 < S, every raw record with batch
\* id in (0, S] is inserted at most once, and exactly once when normalization
\* has caught up.
C3_ExactlyOnce ==
    chHist.cleanS > 0 =>
        \A r \in {x \in chRaw : x.batch <= chHist.cleanS} :
            /\ chCopies(chDst, r) <= 1
            /\ (chNormBatchID >= chHist.cleanS => chCopies(chDst, r) = 1)

\* C4 (as claimed): when a call wrote the rows of a range into the (empty)
\* destination tables and failed before UpdateNormalizeBatchID, the successful
\* rerun for the same range leaves the destination tables with the contents
\* of one uninterrupted run.
C4_RerunSameContents ==
    chHist.rerun =>
        chDst = chApplyRange(chEmptyDst, chRaw, chTables,
                             chHist.crash.n, chHist.crash.s)

----------------------------------------------------------------------------
(* Claims about the BigQuery MERGE of mergeStmtGenerator *)

\* the rows of a destination table with primary key k
bqRowsOf(dst, k) == {r \in BagToSet(dst) : r.cols["id"] = k}

\* the flattened and the de-duplicated source of the last executed MERGE
bqLastFlat == generateFlattenedCTE(bqRaw, bqHist.n, bqHist.s)
bqLastSrc == generateDeDupedCTE(bqLastFlat)

\* a destination table without its synced-at column
RECURSIVE bqStrip(_, _)
bqStrip(T, dst) ==
    IF T = {} THEN EmptyBag
    ELSE LET t == CHOOSE x \in T : TRUE
         IN [r \in {[cols |-> t.cols, del |-> t.del]} |-> dst[t]]
            (+) bqStrip(T \ {t}, dst)

bqDataCols == bqColSet \ {"id"}

\* C5: applying the MERGE a second time for the same batch range, with no new
\* raw record in between, leaves the destination table's keys, data columns and
\* soft-delete markers as the first application left them (synced-at aside).
C5_SecondMergeIsNoOp ==
    bqHist.repeat =>
        bqStrip(BagToSet(bqDst), bqDst) = bqStrip(BagToSet(bqHist.pre), bqHist.pre)

\* C5 witness: a repeated MERGE of a range holding a delete and a non-delete
\* record ran and rewrote a row
C5_Witness ==
    /\ bqHist.repeat
    /\ bqHist.status = "ok"
    /\ \E d \in bqLastSrc : d.rt = 2
    /\ \E d \in bqLastSrc : d.rt # 2
    /\ \E r \in BagToSet(bqDst) : r.synced = 2

\* the keys the claim C6 is about: at least two records of the merged range,
\* with pairwise distinct timestamps
bqDistinctTs(k) ==
    LET F == {d \in bqLastFlat : d.cols["id"] = k}
    IN /\ Cardinality(F) >= 2
       /\ \A x, y \in F : x # y => x.ts # y.ts

\* C6: for a key with N records of pairwise distinct timestamps in the merged
\* range, the destination row after the MERGE reflects only the record L with
\* the greatest timestamp: every column the MERGE wrote holds L's value (any
\* other column its pre-existing value), and L alone decides the delete outcome.
C6_LatestRecordWins ==
    bqHist.status = "ok" =>
        \A k \in bqKeys : bqDistinctTs(k) =>
            LET F == {d \in bqLastFlat : d.cols["id"] = k}
                L == CHOOSE d \in F : \A e \in F : e.ts <= d.ts
                pre == bqRowsOf(bqHist.pre, k)
                post == bqRowsOf(bqDst, k)
            IN /\ \A r \in post : \A c \in bqDataCols :
                      \/ r.cols[c] = L.cols[c]
                      \/ \E t \in pre : r.cols[c] = t.cols[c]
               /\ L.rt # 2 =>
                      /\ post # {}
                      /\ \A r \in post :
                            /\ \A c \in bqDataCols \ L.ut : r.cols[c] = L.uid
                            /\ bqSoftDelete => ~r.del
               /\ (L.rt = 2 /\ ~bqSoftDelete) => post = {}
               /\ (L.rt = 2 /\ bqSoftDelete) =>
                      (post # {} /\ \A r \in post : r.del)

\* C6 witness: two records of one key with distinct timestamps were merged and
\* the row holds the value of the later one
C6_Witness ==
    /\ bqHist.status = "ok"
    /\ bqDistinctTs(1)
    /\ \E r \in bqRowsOf(bqDst, 1) :
          \E d \in bqLastSrc : d.cols["id"] = 1 /\ d.rt # 2 /\ r.cols["a"] = d.uid
    /\ \E d \in bqLastFlat : d.cols["id"] = 1 /\ d.rt # 2 /\ d \notin bqLastSrc

\* C7 (as claimed): the de-duplicated source of a MERGE holds exactly one row
\* per primary key that has records in the range, for every input.
C7_OneSourceRowPerKey ==
    bqHist.status # "none" =>
        \A k \in bqKeys :
            Cardinality({d \in bqLastSrc : d.cols["id"] = k}) <= 1

\* C8: a non-delete record with unchanged-column set U applied to a key that
\* has a destination row leaves every column of U at its pre-existing value
\* and gives every other column the record's value.
C8_UnchangedColumnsKept ==
    bqHist.status = "ok" =>
        \A k \in bqKeys : \A d \in bqLastSrc :
            (d.cols["id"] = k /\ d.rt # 2 /\ bqRowsOf(bqHist.pre, k) # {}) =>
                LET pre == bqRowsOf(bqHist.pre, k)
                    post == bqRowsOf(bqDst, k)
                    upd(t) == [c \in bqColSet |->
                                 IF c \in d.ut THEN t.cols[c] ELSE d.cols[c]]
                IN /\ \A r \in post : \E t \in pre : r.cols = upd(t)
                   /\ \A t \in pre : \E r \in post : r.cols = upd(t)

\* C8 witness: an update with U = {b} was applied to an existing row: b kept
\* the value of the earlier record, a took the update's value
C8_Witness ==
    /\ bqHist.status = "ok"
    /\ \E d \in bqLastSrc :
          /\ d.rt # 2 /\ d.ut = {"b"}
          /\ \E t \in bqRowsOf(bqHist.pre, d.cols["id"]) :
                /\ t.cols["b"] # bqNull /\ t.cols["a"] # d.uid
                /\ \E r \in bqRowsOf(bqDst, d.cols["id"]) :
                      r.cols["b"] = t.cols["b"] /\ r.cols["a"] = d.uid

\* C9 (as claimed): a range holding an insert of key 1 at timestamp 1 and an
\* update of key 1 at timestamp 2 with unchanged columns {b}, merged into a
\* table without a row for key 1, yields a row whose column b holds the
\* insert's value.
C9_ToastFromInsertOfSameRange ==
    ( /\ bqHist.status = "ok"
      /\ bqHist.n = 0 /\ bqHist.s = 2
      /\ Len(bqRaw) >= 2
      /\ bqRaw[1] = [batch |-> 1, tbl |-> bqDstTableName, key |-> 1, rt |-> 0,
                     ts |-> 1, ut |-> {}]
      /\ bqRaw[2] = [batch |-> 2, tbl |-> bqDstTableName, key |-> 1, rt |-> 1,
                     ts |-> 2, ut |-> {"b"}]
      /\ bqRowsOf(bqHist.pre, 1) = {} )
    => \E r \in bqRowsOf(bqDst, 1) : r.cols["a"] = 2 /\ r.cols["b"] = 1

\* the delete records of key k staged for the table before (batch order and
\* timestamp) record d
bqDeletesBefore(k, d) ==
    {i \in 1..Len(bqRaw) : /\ bqRaw[i].tbl = bqDstTableName
                           /\ bqRaw[i].key = k /\ bqRaw[i].rt = 2
                           /\ bqRaw[i].ts < d.ts
                           /\ bqRaw[i].batch <= bqRaw[d.uid].batch}

\* C10: with soft-delete configured, once a MERGE has applied an insert/update
\* record that follows a delete record of the same key with a greater
\* timestamp (same or later batch range), the key's row has its soft-delete
\* marker FALSE and the insert/update's values.
C10_SoftDeleteRoundTrip ==
    (bqSoftDelete /\ bqHist.status = "ok") =>
        \A k \in bqKeys :
            LET top == {d \in bqLastSrc : d.cols["id"] = k}
                post == bqRowsOf(bqDst, k)
            IN ( /\ top # {}
                 /\ \A d \in top : d.rt # 2 /\ bqDeletesBefore(k, d) # {} )
               => /\ post # {}
                  /\ \A r \in post :
                        /\ r.del = FALSE
                        /\ \E d \in top :
                              \A c \in bqDataCols \ d.ut : r.cols[c] = d.uid

\* C10 witness: a soft-deleted row was revived by the MERGE of a later range
C10_Witness ==
    /\ bqSoftDelete /\ bqHist.status = "ok"
    /\ \E d \in bqLastSrc :
          /\ d.rt # 2 /\ bqDeletesBefore(d.cols["id"], d) # {}
          /\ \E t \in bqRowsOf(bqHist.pre, d.cols["id"]) : t.del
          /\ \E r \in bqRowsOf(bqDst, d.cols["id"]) : ~r.del /\ r.cols["a"] = d.uid

\* C11: when a MERGE applies a delete record to a key that has a destination
\* row, then without soft-delete the key has no row afterwards, and with
\* soft-delete every row of the key is still there, its soft-delete marker is
\* TRUE and its synced-at column holds the time of this MERGE.
C11_DeleteRemovesOrMarks ==
    bqHist.status = "ok" =>
        \A d \in bqLastSrc :
            LET k == d.cols["id"]
                pre == bqRowsOf(bqHist.pre, k)
                post == bqRowsOf(bqDst, k)
                count(B, R) == Cardinality({<<r, i>> \in R \X (1..BQMaxRaw) :
                                               i <= CopiesIn(r, B)})
            IN (d.rt = 2 /\ pre # {}) =>
                  /\ ~bqSoftDelete => post = {}
                  /\ bqSoftDelete =>
                        /\ count(bqDst, post) = count(bqHist.pre, pre)
                        /\ \A r \in post : r.del /\ r.synced = bqHist.merges

\* C11 witness: with soft-delete, a delete record was applied to a live row
\* written by an earlier MERGE
C11_Witness ==
    /\ bqSoftDelete /\ bqHist.status = "ok" /\ bqHist.merges = 2
    /\ \E d \in bqLastSrc :
          /\ d.rt = 2
          /\ \E t \in bqRowsOf(bqHist.pre, d.cols["id"]) : ~t.del /\ t.synced = 1
          /\ \E r \in bqRowsOf(bqDst, d.cols["id"]) : r.del /\ r.synced = 2

----------------------------------------------------------------------------
(* Claims about processPartitions *)

\* the chunks of the child workflows, joined in the order of their batch ids
RECURSIVE qConcatByBatchId(_, _)
qConcatByBatchId(children, k) ==
    IF k > Len(children) THEN << >>
    ELSE LET C == {i \in 1..Len(children) : children[i].batch.BatchId = k}
         IN (IF C = {} THEN << >>
             ELSE children[CHOOSE i \in C : TRUE].batch.Partitions)
            \o qConcatByBatchId(children, k + 1)

\* C12: for P >= 1 fetched partitions and W >= 1 workers, processPartitions
\* starts at least one and at most W child workflows, one per chunk of
\* ceil(P/W) consecutive partitions, and no child has an empty chunk.
C12_AtMostWNonEmptyChunks ==
    Len(qPartitions) >= 1 =>
        LET P == Len(qPartitions)
            W == qMaxParallelWorkers(qConfig)
            c == IF P % W = 0 THEN P \div W ELSE P \div W + 1
        IN /\ Len(qChildren) >= 1
           /\ Len(qChildren) <= W
           /\ Len(qChildren) = (IF P % c = 0 THEN P \div c ELSE P \div c + 1)
           /\ \A i \in 1..Len(qChildren) : Len(qChildren[i].batch.Partitions) >= 1

\* C12 witness: 7 partitions and 3 workers gave 3 child workflows
C12_Witness ==
    /\ Len(qPartitions) = 7
    /\ qMaxParallelWorkers(qConfig) = 3
    /\ Len(qChildren) = 3

\* C13 (as claimed): the sizes of any two chunks of processPartitions differ
\* by at most 1.
C13_ChunkSizesWithinOne ==
    \A i, j \in 1..Len(qChildren) :
        Len(qChildren[i].batch.Partitions) - Len(qChildren[j].batch.Partitions) <= 1

\* C14: the chunks of the child workflows, joined in batch order, are the
\* fetched partition list, and the children carry the batch ids 1..n, each
\* once.
C14_ChunksConcatToPartitions ==
    Len(qPartitions) >= 1 =>
        /\ qConcatByBatchId(qChildren, 1) = qPartitions
        /\ \A k \in 1..Len(qChildren) :
              Cardinality({i \in 1..Len(qChildren) :
                              qChildren[i].batch.BatchId = k}) = 1

\* C14 witness: 5 partitions and 2 workers gave the chunks 1..3 and 4..5
C14_Witness ==
    /\ Len(qPartitions) = 5
    /\ Len(qChildren) = 2
    /\ qChildren[1].batch = [Partitions |-> SubSeq(qPartitions, 1, 3), BatchId |-> 1]
    /\ qChildren[2].batch = [Partitions |-> SubSeq(qPartitions, 4, 5), BatchId |-> 2]

----------------------------------------------------------------------------
(* Claims about QRepFlowWorkflow and XminFlowWorkflow *)

\* C15: while the consolidation activity or its cleanup runs, every child
\* workflow started in the cycle has completed successfully, in whatever
\* order the children ended.
C15_ConsolidateAfterAllChildren ==
    qPc \in {"ConsolidateQRepPartitions", "CleanupQRepFlow"} =>
        \A i \in 1..Len(qChildren) : qChildren[i].status = "done"

\* C15 witness: consolidation runs after three children that did not end in
\* the order they were started in
C15_Witness ==
    /\ qPc = "ConsolidateQRepPartitions"
    /\ Len(qChildren) = 3
    /\ qHist.outOfOrder

\* C16 (as claimed): when a pause was observed at the signal check and a
\* resume received later, the flow state carried into the next continuation
\* is the state immediately before the pause was observed, in every field.
C16_PauseResumeKeepsState ==
    (qPc = "continued" /\ qHist.paused /\ qHist.resumed) =>
        qState = qHist.prePause

\* C17 (as claimed): a cycle that redirected its writes to the shadow table
\* and whose consolidation succeeded has renamed the shadow table over the
\* live table and cleared NeedsResync when the workflow ends successfully or
\* issues continue-as-new, InitialCopyOnly or not.
C17_ResyncCycleRenames ==
    (qPc \in {"completed", "continued"} /\ qHist.resync /\ qHist.consolidated) =>
        /\ qTables = [live |-> "new", shadow |-> "absent"]
        /\ ~qState.NeedsResync

\* C18: after a failed consolidation or cleanup activity the rename activity
\* has not been started and NeedsResync has its value of the cycle start;
\* after a failed rename activity NeedsResync has its value of the cycle
\* start too.
C18_FailureKeepsNeedsResync ==
    /\ qHist.consolidateFailed =>
           /\ ~qHist.renameStarted
           /\ qTables.shadow # "absent" \/ ~qHist.resync
           /\ qState.NeedsResync = qHist.start.NeedsResync
    /\ qHist.renameFailed => qState.NeedsResync = qHist.start.NeedsResync

\* C18 witness: the rename activity of a resync cycle failed
C18_Witness ==
    /\ qHist.renameFailed
    /\ qHist.resync
    /\ qState.NeedsResync
    /\ qPc = "failed"

\* C19 (as claimed): a pause signal that arrives while the workflow is
\* blocked in waitForNewRows ends the wait: the flow gets paused (or ends
\* with an error) whether or not the source reports new rows.
C19_PauseEndsIdleWait ==
    (qPc = "QRepWaitUntilNewRows" /\ qSignalChan # << >>
        /\ Head(qSignalChan) = PauseSignal)
    ~> (qPc \in {"paused", "failed", "cancelled"})

\* C20: once the context is cancelled, no step issues continue-as-new, and
\* a receive of the paused loop that returns without a signal ends the
\* workflow with the cancellation error.
C20_CancelledNeverContinues ==
    [][qCancelled =>
          /\ qPc' # "continued"
          /\ (qPc = "paused" /\ qSignalChan' = qSignalChan /\ qState' = qState)
                 => qPc' = "cancelled"]_vars

\* C20 witness: a paused flow received a resume signal with its context
\* cancelled and returned the cancellation error
C20_Witness ==
    /\ qPc = "cancelled"
    /\ qHist.paused
    /\ qHist.resumed

\* C21: a workflow with InitialCopyOnly never issues continue-as-new and, once
\* the consolidation of its first pass has succeeded, has ended successfully;
\* a workflow without InitialCopyOnly never ends successfully: a cycle of it
\* that got through its signal check without cancellation has issued
\* continue-as-new with the state the cycle updated.
C21_InitialCopyOnlyEndsElseContinues ==
    /\ qConfig.InitialCopyOnly =>
           /\ qPc # "continued"
           /\ qHist.first
           /\ qHist.consolidated => qPc = "completed"
    /\ ~qConfig.InitialCopyOnly =>
           /\ qPc # "completed"
           /\ qPc = "continued" =>
                  /\ qHist.consolidated
                  /\ ~qCancelled
                  /\ ~qState.NeedsResync
                  /\ qConfig.kind = "qrep" =>
                         qState.NumPartitionsProcessed =
                             qHist.start.NumPartitionsProcessed + Len(qPartitions)

\* C21 witness: an InitialCopyOnly workflow has ended successfully after the
\* consolidation of its first pass
C21_Witness ==
    /\ qConfig.InitialCopyOnly
    /\ qPc = "completed"
    /\ qHist.consolidated
    /\ qHist.first

\* C22 (as claimed): the initial flow state has status Running, the sentinel
\* LastPartition, NumPartitionsProcessed 0, and NeedsResync true if full
\* resync is configured and false otherwise.
C22_NeedsResyncIffFullResync ==
    (qHist.first /\ ~qHist.start.DisableWaitForNewRows) =>
        /\ qHist.start.CurrentFlowStatus = "STATUS_RUNNING"
        /\ qHist.start.LastPartition = qSentinelPartition
        /\ qHist.start.NumPartitionsProcessed = 0
        /\ qHist.start.NeedsResync = qConfig.DstTableFullResync

\* C22 (amended): the initial flow state has status Running, the sentinel
\* LastPartition, NumPartitionsProcessed 0 and NeedsResync true whatever the
\* configuration; the first cycle redirects its writes to the shadow table
\* only if full resync is configured.
C22_InitialFlowState ==
    (qHist.first /\ ~qHist.start.DisableWaitForNewRows) =>
        /\ qHist.start.CurrentFlowStatus = "STATUS_RUNNING"
        /\ qHist.start.LastPartition = qSentinelPartition
        /\ qHist.start.NumPartitionsProcessed = 0
        /\ qHist.start.NeedsResync
        /\ qHist.resync => qConfig.DstTableFullResync

\* C22 witness: a first cycle without full resync went past
\* handleTableCreationForResync with NeedsResync set and no shadow table
C22_Witness ==
    /\ qHist.first
    /\ ~qHist.start.DisableWaitForNewRows
    /\ ~qConfig.DstTableFullResync
    /\ qState.NeedsResync
    /\ qPc = "ConsolidateQRepPartitions"
    /\ qTables.shadow = "absent"

----------------------------------------------------------------------------
(* Claims about toQValue and toQValueArray *)

\* toQValue has returned
qvReturned == vPc \in {"converted", "returned"}

\* C23 (as claimed): for every value kind processRows can produce, toQValue
\* given a driver-null for that kind (the nil value, or the scan destination
\* of the kind holding an invalid sql.Null* wrapper, a nil byte slice or a
\* nil interface) returns a value of that kind with an absent payload and no
\* error.
C23_DriverNullIsAbsent ==
    (/\ qvReturned
     /\ vVal.st = "null"
     /\ vVal.t \in {"nil", processRowsDest(vKind)}) =>
        /\ vRes.out = "ok"
        /\ vRes.kind = vKind
        /\ vRes.value.st = "null"

\* the array kind the claim names for the first element of a JSON array
qvClaimedArrayKind(v) ==
    IF v # << >> /\ v[1].t \in qvElemTypes THEN qvJsonArrayKind(v[1])
    ELSE "QValueKindArrayString"

\* C24 (as claimed): a JSON-kind payload that is textually a JSON array is
\* reclassified: the value returned has the array kind of the first
\* element's runtime type (array-of-string when none of the listed types
\* matches) and a slice of that kind as payload; an empty JSON array is
\* returned as array-of-string.
C24_JsonArrayReclassified ==
    (/\ qvReturned
     /\ vKind = "QValueKindJSON"
     /\ vVal.t = "*interface{}" /\ vVal.it = "string"
     /\ qvUnmarshal(vVal.a).ok) =>
        /\ vRes.out # "panic"
        /\ qvUnmarshal(vVal.a).v = << >> => vRes.out = "ok"
        /\ vRes.out = "ok" =>
               /\ vRes.kind = qvClaimedArrayKind(qvUnmarshal(vVal.a).v)
               /\ vRes.value.t = "[]" \o qvArrayElemType(vRes.kind)

\* C25 (as claimed): a (kind, driver value) pair toQValue does not support
\* yields an error: a value that is no driver-null is never returned with a
\* nil payload, a kind without conversion is an error, and so is a JSON
\* payload that is not a string.
C25_UnsupportedIsError ==
    (qvReturned /\ vVal.st # "null") =>
        /\ vRes.out = "ok" => vRes.value.t # "nil"
        /\ vKind \in {"QValueKindArrayBoolean", "QValueKindGeometry"} =>
               vRes.out = "error"
        /\ (vKind = "QValueKindJSON" /\ vVal.it # "string") => vRes.out = "error"

\* the Go type that represents the payload of a kind
qvPayloadType(kind) ==
    IF kind \in qvArrayKinds THEN "[]" \o qvArrayElemType(kind)
    ELSE IF kind \in {"QValueKindBytes", "QValueKindBit"} THEN "[]byte"
    ELSE IF kind = "QValueKindNumeric" THEN "*big.Rat"
    ELSE IF kind = "QValueKindQChar" THEN "uint8"
    ELSE IF kind = "QValueKindJSON" THEN "string"
    ELSE qvWrapperOf(kind)[2]

\* C26 (as claimed): a value returned without error has a payload whose
\* representation matches the returned kind (or no payload); a UUID that
\* arrives as 16 raw bytes, as a []byte or as a [16]byte, is returned as a
\* string-kind value with the canonical hyphenated text.
C26_PayloadMatchesKind ==
    (qvReturned /\ vRes.out = "ok") =>
        /\ vRes.kind # "QValueKindHStore" =>
               \/ vRes.value.st = "null"
               \/ vRes.value.t = qvPayloadType(vRes.kind)
        /\ (/\ vKind = "QValueKindUUID"
            /\ vVal.t \in {"*[]byte", "*[16]byte"}
            /\ vVal.st = "val") =>
               /\ vRes.kind = "QValueKindString"
               /\ vRes.value.t = "string"
               /\ vRes.value.s = qvUUIDString(vVal.a)

----------------------------------------------------------------------------
(* Claims about the checkpoint and the signal check of the workflows *)

\* C27: when a cycle of QRepFlowWorkflow that fetched a non-empty partition
\* list issues continue-as-new, the carried state has NumPartitionsProcessed
\* increased by exactly the number of fetched partitions and LastPartition
\* equal to the last element of the list; no step, continuations included,
\* decreases NumPartitionsProcessed.
C27_CheckpointAdvances ==
    [][/\ qState'.NumPartitionsProcessed >= qState.NumPartitionsProcessed
       /\ (/\ qPc' = "continued" /\ qPc # "continued"
           /\ qConfig.kind = "qrep"
           /\ Len(qPartitions) > 0) =>
              /\ qState'.NumPartitionsProcessed =
                     qHist.start.NumPartitionsProcessed + Len(qPartitions)
              /\ qState'.LastPartition = qPartitions[Len(qPartitions)]]_vars

\* C27 witness: a continuation of the workflow fetched partitions again and
\* issued continue-as-new with more partitions counted than it fetched
C27_Witness ==
    /\ qPc = "continued"
    /\ qConfig.kind = "qrep"
    /\ ~qHist.first
    /\ Len(qPartitions) > 1
    /\ qState.NumPartitionsProcessed > Len(qPartitions)
    /\ qState.LastPartition = qPartitions[Len(qPartitions)]

\* C28 (as claimed): when GetPartitions returns an empty list the cycle
\* completes without error or panic: no child workflow is started, the
\* consolidation still runs, and LastPartition and NumPartitionsProcessed are
\* carried unchanged.
C28_EmptyFetchCompletes ==
    (qConfig.kind = "qrep" /\ qPartitions = << >>) =>
        /\ qPc # "panicked"
        /\ qPc = "continued" =>
               /\ qChildren = << >>
               /\ qHist.consolidated
               /\ qState.LastPartition = qHist.start.LastPartition
               /\ qState.NumPartitionsProcessed =
                      qHist.start.NumPartitionsProcessed

\* C29 (as claimed): the latest pending signal decides at the signal check:
\* continue-as-new is never issued with signals left in the channel of which
\* the most recent is a pause.
C29_LatestSignalDecides ==
    (qPc = "continued" /\ qSignalChan # << >>) =>
        qSignalChan[Len(qSignalChan)] # PauseSignal

\* C30: from the observation of a pause until the resume or the
\* cancellation, the workflow stays in the paused loop or leaves it into
\* continue-as-new or the cancellation error; LastPartition,
\* NumPartitionsProcessed and NeedsResync keep their values, and no partition
\* fetch, child workflow, consolidation or rename is started.  Observing the
\* pause changes the flow state in CurrentFlowStatus only, to STATUS_PAUSED.
C30_PausedFrame ==
    [][/\ qPc = "paused" =>
              /\ qPc' \in {"paused", "continued", "cancelled"}
              /\ qState'.LastPartition = qState.LastPartition
              /\ qState'.NumPartitionsProcessed = qState.NumPartitionsProcessed
              /\ qState'.NeedsResync = qState.NeedsResync
              /\ UNCHANGED <<qConfig, qPartitions, qXminLast, qChildren, qTables>>
       /\ (qPc # "paused" /\ qPc' = "paused") =>
              qState' = [qHist'.prePause EXCEPT !.CurrentFlowStatus = "STATUS_PAUSED"]]_vars

\* C30 witness: a flow that counted partitions is paused, and a resume signal
\* is waiting
C30_Witness ==
    /\ qPc = "paused"
    /\ qState.CurrentFlowStatus = "STATUS_PAUSED"
    /\ qState.NumPartitionsProcessed > 0
    /\ qSignalChan = << NoopSignal >>

----------------------------------------------------------------------------
(* Claims about the failures and the continuation of the workflows *)

\* C31: when the partition fetch, a child workflow that processPartitions
\* waited for, or the consolidation failed in a cycle of QRepFlowWorkflow,
\* the workflow has returned the error: it has ended without continue-as-new,
\* with LastPartition and NumPartitionsProcessed as they were when the cycle
\* started.
C31_FailureKeepsCheckpoint ==
    qConfig.kind = "qrep" =>
        /\ (/\ qPc # "ChildWorkflows"
            /\ \E i \in 1..Len(qChildren) : qChildren[i].status = "failed") =>
               qPc = "failed"
        /\ qHist.consolidateFailed => qPc = "failed"
        /\ (qPc = "failed" /\ ~qHist.consolidated) =>
               /\ qState.LastPartition = qHist.start.LastPartition
               /\ qState.NumPartitionsProcessed =
                      qHist.start.NumPartitionsProcessed

\* C31 witness: in a continuation of the workflow a child failed after
\* another child had ended well, and the workflow failed at the checkpoint of
\* the cycle before
C31_Witness ==
    /\ qConfig.kind = "qrep"
    /\ qPc = "failed"
    /\ ~qHist.first
    /\ \E i \in 1..Len(qChildren) : qChildren[i].status = "failed"
    /\ \E i \in 1..Len(qChildren) : qChildren[i].status = "done"
    /\ qState.NumPartitionsProcessed > 0
    /\ qState.LastPartition # qSentinelPartition

\* C38: when a workflow issues continue-as-new, the carried config names the
\* live table, as it did when the cycle started, and the carried NeedsResync
\* is false; only the first cycle of a flow runs as a resync.
C38_ContinuationCarriesLiveTable ==
    /\ qPc = "continued" =>
           /\ qConfig.DestinationTableIdentifier = qHist.startDst
           /\ qConfig.DestinationTableIdentifier = qLiveTable
           /\ ~qState.NeedsResync
    /\ qHist.resync => qHist.first

\* C38 witness: a resync cycle has renamed the shadow table and issued
\* continue-as-new
C38_Witness ==
    /\ qPc = "continued"
    /\ qHist.resync
    /\ qTables = [live |-> "new", shadow |-> "absent"]

\* C39: when a cycle of XminFlowWorkflow issues continue-as-new, the carried
\* LastPartition has the run UUID as PartitionId and as range start the value
\* the xmin replication activity returned, and NumPartitionsProcessed is what
\* it was at the start of the cycle.
C39_XminCheckpoint ==
    (qPc = "continued" /\ qConfig.kind = "xmin") =>
        /\ qState.LastPartition = [PartitionId |-> qRunUUID, Range |-> qXminLast]
        /\ qState.NumPartitionsProcessed = qHist.start.NumPartitionsProcessed

\* C39 witness: a continuation of XminFlowWorkflow got another xmin than the
\* run before it and issued continue-as-new
C39_Witness ==
    /\ qPc = "continued"
    /\ qConfig.kind = "xmin"
    /\ ~qHist.first
    /\ qXminLast # qHist.start.LastPartition.Range
    /\ qState.LastPartition.Range = qXminLast


----------------------------------------------------------------------------
(* Claims about the failures, the frame and the termination of ClickHouse
   normalization *)

\* C32: a NormalizeRecords call that returns an error, in particular one whose
\* INSERT for some table failed after the INSERTs of earlier tables succeeded,
\* leaves last_normalize_batch_id at its pre-call value; the counter is written
\* only by a call that returns without error after the INSERT of every table
\* of the range has been applied.
C32_FailedInsertKeepsCounter ==
    [][/\ chResp'.status = "error" => chNormBatchID' = chNormBatchID
       /\ chNormBatchID' # chNormBatchID =>
              /\ chResp'.status = "done"
              /\ chDst' = chApplyRange(chDst, chRaw,
                                       getDistinctTableNamesInBatch(
                                           chRaw, chResp'.req, chNormBatchID),
                                       chNormBatchID, chResp'.req)]_vars

\* an INSERT into t1 succeeded, the one into t2 failed: t1 holds rows, t2 holds
\* none although the range has a record for it, and the counter has not moved
C32_Witness ==
    /\ chResp.status = "error"
    /\ chNormBatchID = 0
    /\ chDst["t1"] # EmptyBag
    /\ chDst["t2"] = EmptyBag
    /\ \E r \in chRaw : r.tbl = "t2" /\ r.batch <= chResp.req

\* C35: a NormalizeRecords call made when last_normalize_batch_id has reached
\* the SyncBatchID of the request writes no row, leaves the counter unchanged
\* and, once the counter has been read, answers Done = false without an error
\* (the only error of such a call is the failed read of the counter).
C35_CaughtUpCallIsNoOp ==
    [][(CaughtUp(chNormBatchID, chSyncBatchID) /\ chSyncBatchID' = chSyncBatchID) =>
          /\ chDst' = chDst
          /\ chNormBatchID' = chNormBatchID
          /\ chRaw' = chRaw
          /\ chResp'.status \in {"caughtup", "error"}
          /\ chResp'.status = "caughtup" =>
                 /\ chResp'.start = chNormBatchID
                 /\ chResp'.end = chSyncBatchID
          /\ chResp'.status = "error" => chHist'.fails = chHist.fails + 1]_vars

\* a caught-up call after rows were normalized
C35_Witness ==
    /\ chResp.status = "caughtup"
    /\ chNormBatchID = chSyncBatchID
    /\ chNormBatchID > 0
    /\ chDst # chEmptyDst

\* C36: every successful call that is not caught up moves the counter strictly
\* closer to SyncBatchID without passing it, so with SyncBatchID fixed and no
\* more failures the counter reaches SyncBatchID after finitely many calls;
\* from then on the calls change neither the counter nor the tables.
C36_NormalizeCatchesUp ==
    /\ [][(\/ chNormBatchID' # chNormBatchID
            \/ (chSyncBatchID' = chSyncBatchID /\ chResp'.status = "done")) =>
              /\ chNormBatchID < chNormBatchID'
              /\ chNormBatchID' <= chSyncBatchID]_vars
    /\ [][(chNormBatchID = chSyncBatchID /\ chSyncBatchID' = chSyncBatchID) =>
              UNCHANGED <<chNormBatchID, chDst>>]_vars
    /\ <>[](chNormBatchID = chSyncBatchID)

\* caught up from 0 with every batch staged before the first call: one call
\* per batch, then a call that finds nothing to do
C36_Witness ==
    /\ chSyncBatchID = MaxBatch
    /\ chNormBatchID = MaxBatch
    /\ chHist.cleanS = MaxBatch
    /\ chResp.status = "caughtup"

----------------------------------------------------------------------------
(* Claims about the rows ClickHouse normalization writes *)

\* C40: every row a step adds to a destination table is the projection of a
\* raw record of that table, with _peerdb_is_deleted = 1 exactly when the
\* record type is delete (2), 0 for insert (0) and update (1), and with
\* _peerdb_version = the record's timestamp; no step updates or removes a row
\* (every table only grows).
C40_RowsCarrySignAndVersion ==
    [][\A t \in chTables :
          /\ chDst[t] \sqsubseteq chDst'[t]
          /\ \A row \in BagToSet(chDst'[t] (-) chDst[t]) :
                \E r \in chRaw :
                    /\ r.tbl = t
                    /\ r.uid = row.uid
                    /\ row.sign = (IF r.rt = 2 THEN 1 ELSE 0)
                    /\ row.version = r.ts]_vars

\* the tables hold the row of a delete and the row of an update
C40_Witness ==
    /\ \E t \in chTables : \E row \in BagToSet(chDst[t]) : row.sign = 1
    /\ \E t \in chTables : \E row \in BagToSet(chDst[t]) :
          /\ row.sign = 0
          /\ \E r \in chRaw : r.uid = row.uid /\ r.rt = 1 /\ row.version = r.ts

----------------------------------------------------------------------------
(* Claims about the raw records a normalization reads *)

\* C33: what a normalization writes into destination table T is determined by
\* the raw records with normalizeBatchID < batch id <= syncBatchID whose
\* destination table name is T, and by no other raw record: a ClickHouse call
\* appends to T nothing or the projections of exactly those records, and a
\* BigQuery MERGE has the outcome of the statement run over exactly those
\* records.
C33_NormalizeReadsOnlyRange ==
    [][/\ \A T \in chTables :
            LET read == {x \in chRaw : /\ chNormBatchID < x.batch
                                       /\ x.batch <= chSyncBatchID
                                       /\ x.tbl = T}
            IN chDst'[T] \in {chDst[T],
                              chDst[T] (+) SetToBag({chProject(r) : r \in read})}
       /\ bqHist'.merges # bqHist.merges =>
            LET read == {j \in 1..Len(bqRaw) : /\ bqNormBatchID < bqRaw[j].batch
                                               /\ bqRaw[j].batch <= bqSyncBatchID
                                               /\ bqRaw[j].tbl = bqDstTableName}
                f == {bqFlatten(i, bqRaw[i]) : i \in read}
                src == generateDeDupedCTE(f)
                groups == {d.ut : d \in {x \in f : x.rt # 2}}
                clauses == generateMergeStmt(bqSoftDelete,
                               SelectSeq(bqGroupOrder, LAMBDA g : g \in groups))
                failed == bqMergeError(bqDst, src, clauses)
            IN /\ (bqHist'.status = "error") <=> failed
               /\ bqDst' = IF failed THEN bqDst
                           ELSE bqExecMerge(bqDst, src, clauses, bqHist'.merges)]_vars

\* a MERGE ran over a range that also holds a record of another table, for
\* the same key and with the latest timestamp
C33_Witness ==
    /\ bqHist.status = "ok"
    /\ bqDst # EmptyBag
    /\ \E i, j \in 1..Len(bqRaw) :
          /\ bqRaw[i].tbl = bqOtherTableName
          /\ bqRaw[j].tbl = bqDstTableName
          /\ bqHist.n < bqRaw[i].batch /\ bqRaw[i].batch <= bqHist.s
          /\ bqHist.n < bqRaw[j].batch /\ bqRaw[j].batch <= bqHist.s

----------------------------------------------------------------------------
(* Claims about the elements toQValueArray converts *)

\* C34 (as claimed): when toQValueArray is handed a generic element sequence
\* ([]interface{}) for an array kind, either directly or from the JSON case
\* of toQValue, and some element's runtime type is not the element type of
\* the kind, the conversion returns an error; it never panics.
C34_MismatchedElementIsError ==
    /\ (/\ qvReturned
        /\ vKind \in qvArrayKinds
        /\ vVal.t = "[]interface{}"
        /\ \E i \in 1..Len(vVal.a) : vVal.a[i].t # qvArrayElemType(vKind)) =>
           vRes.out = "error"
    /\ (/\ qvReturned
        /\ vKind = "QValueKindJSON"
        /\ vVal.t = "*interface{}" /\ vVal.it = "string"
        /\ qvUnmarshal(vVal.a).ok
        /\ Len(qvUnmarshal(vVal.a).v) > 0
        /\ qvJsonArrayKind(qvUnmarshal(vVal.a).v[1]) \in qvArrayKinds
        /\ \E i \in 1..Len(qvUnmarshal(vVal.a).v) :
              qvUnmarshal(vVal.a).v[i].t #
                  qvArrayElemType(qvJsonArrayKind(qvUnmarshal(vVal.a).v[1]))) =>
           vRes.out = "error"

----------------------------------------------------------------------------
(* Claims about the sync of a partition that is already synced *)

\* C37: a SyncQRepRecords call for a partition the metadata already records
\* as synced writes no row, records nothing, and returns 0 rows; it returns
\* an error only when a step before the answer failed (the read of the
\* stream's schema, the replay of the schema or the lookup itself).
C37_SyncedPartitionIsSkipped ==
    [][IsQrepPartitionSynced(sqSynced, sqRes'.part) =>
          /\ sqDst' = sqDst
          /\ sqSynced' = sqSynced
          /\ sqRes'.rows = 0
          /\ sqRes'.err <=> sqFails' = sqFails + 1]_vars

\* a second call for a partition whose first call wrote rows
C37_Witness ==
    /\ sqRes.part \in sqSynced
    /\ sqRes.rows = 0
    /\ ~sqRes.err
    /\ sqDst[sqRes.part] > 0

====
